---- MODULE Spec2Model ----
(***************************************************************************)
(* The evaluation harness of experiments/scripts: evaluate_with_mapping.py *)
(* (cross-space scoring), evaluate_top5.py (top-1/top-5 scoring) and       *)
(* evaluate_accuracy.py (Triton client scoring).                           *)
(*                                                                         *)
(* Strings are sequences of character codes: the digits are 0..9 and the   *)
(* letters used by the label ids follow them, so that the order of the     *)
(* codes is the order Python compares the characters in.  Python indices   *)
(* are 0-based; a TLA+ sequence holds index k at position k + 1.           *)
(***************************************************************************)
EXTENDS Integers, Sequences, FiniteSets

\* ------------------------------------------------------------- bounds
MaxSamples == 2      \* lines of val_annotations.txt
MaxLatencies == 4    \* latencies of a sample handed to the statistics
NumLabels == 2       \* distinct label ids of the dataset

\* -------------------------------------------------- program constants
Modulus == 1000      \* evaluate_top5: "same last 3 digits"
TopK == 5            \* evaluate_top5: np.argsort(...)[-5:]
Unmapped == -1       \* tiny_imagenet_to_imagenet.get(..., -1)
HashRange == 1000    \* create_imagenet_mapping: hash(wnid) % 1000

\* the codes of the letters: n of a WordNet id, p of a filler id, and those
\* of the directory name "images" and of the key "detailed_results"
Letter == [a |-> 10, d |-> 11, e |-> 12, g |-> 13, i |-> 14, l |-> 15, m |-> 16,
           n |-> 17, p |-> 18, r |-> 19, s |-> 20, t |-> 21, u |-> 22]

\* the codes of the other characters of a JSON document
Punct == [lbrace |-> 30, rbrace |-> 31, lbracket |-> 32, rbracket |-> 33, comma |-> 34,
          colon |-> 35, quote |-> 36, backslash |-> 37, space |-> 38, underscore |-> 39]

\* ------------------------------------------------------------ strings
RECURSIVE DecStr(_)
\* str(i) of a non-negative int: its decimal digits
DecStr(i) == IF i < 10 THEN <<i>> ELSE DecStr(i \div 10) \o <<i % 10>>

RECURSIVE DigitsValue(_)
DigitsValue(s) ==
    IF Len(s) = 0 THEN 0
    ELSE 10 * DigitsValue(SubSeq(s, 1, Len(s) - 1)) + s[Len(s)]

\* int(s) of a str succeeds on a run of decimal digits (and gives DigitsValue)
\* and raises ValueError on the other strings tried here
IsDecimal(s) == Len(s) > 0 /\ \A k \in 1..Len(s) : s[k] \in 0..9

RECURSIVE LexLess(_, _)
\* a < b of two str
LexLess(a, b) ==
    IF Len(a) = 0 THEN Len(b) > 0
    ELSE IF Len(b) = 0 THEN FALSE
    ELSE IF a[1] # b[1] THEN a[1] < b[1]
    ELSE LexLess(Tail(a), Tail(b))

RECURSIVE Sorted(_)
\* sorted(S) of a set of str
Sorted(S) ==
    IF S = {} THEN <<>>
    ELSE LET m == CHOOSE x \in S : \A y \in S \ {x} : LexLess(x, y)
         IN  <<m>> \o Sorted(S \ {m})

\* ------------------------------------------------------------ inputs
Label(k) == <<Letter.n, k>>
Labels == {Label(k) : k \in 1..NumLabels}
Filler(j) == <<Letter.p>> \o DecStr(j)

RECURSIVE SeqsUpTo(_, _)
SeqsUpTo(S, n) ==
    IF n = 0 THEN {<<>>}
    ELSE LET shorter == SeqsUpTo(S, n - 1)
         IN  shorter \cup {Append(s, x) : s \in {t \in shorter : Len(t) = n - 1}, x \in S}

\* val_annotations.txt: line k names image k and its label id
AnnotationFiles == SeqsUpTo(Labels, MaxSamples)

AllLabelsSorted == Sorted(Labels)
RECURSIVE Reverse(_)
Reverse(s) == IF Len(s) = 0 THEN <<>> ELSE Append(Reverse(Tail(s)), Head(s))
Padding(p) == [j \in 1..p |-> Filler(j)]

\* wnids.txt: absent, or the label ids in file order; the files tried list the
\* labels in sorted order, in reverse order, after Modulus filler ids, and
\* with the last label left out
NoFile == [exists |-> FALSE, lines |-> <<>>]
WnidsFiles ==
    {NoFile} \cup
    {[exists |-> TRUE, lines |-> w] :
        w \in { AllLabelsSorted,
                Reverse(AllLabelsSorted),
                Padding(Modulus) \o AllLabelsSorted,
                SubSeq(AllLabelsSorted, 1, NumLabels - 1) }}

\* the train directory: absent, or one subdirectory per label id
NoDir == [exists |-> FALSE, dirs |-> <<>>]
TrainDirs == {NoDir, [exists |-> TRUE, dirs |-> AllLabelsSorted]}

RECURSIVE Orders(_)
\* the lists that hold every element of S once
Orders(S) ==
    IF S = {} THEN {<<>>}
    ELSE UNION { {<<x>> \o o : o \in Orders(S \ {x})} : x \in S }

\* the train directory as the mapping builder may find it: os.listdir gives
\* the subdirectories in an order of the file system's choosing
ListedTrainDirs ==
    {NoDir} \cup {[exists |-> TRUE, dirs |-> o] : o \in Orders(Labels)}

\* the dataset directory before any of it is read
NoDataset == [wnids |-> NoFile, train |-> NoDir, annotations |-> NoFile]

\* class_mapping.json, "tiny_imagenet_to_imagenet": str(local index) -> str
LocalKeys == {DecStr(k) : k \in 0..(NumLabels - 1)}
MappingFiles ==
    { [k \in {} |-> <<>>],                                   \* no entry at all
      [k \in {DecStr(0)} |-> DecStr(0)],                     \* only "0" -> "0"
      [k \in LocalKeys |-> DecStr(DigitsValue(k) + 1)],      \* "i" -> "i+1"
      [k \in {DecStr(0)} |-> <<Letter.n>>] }                    \* "0" -> not a number

\* output tensor rows: empty, fewer than five entries, tied maxima, and six
\* entries of which the top five leave one index out
Vecs ==
    { <<>>, <<1>>, <<0, 1>>, <<1, 1>>, <<0, 0, 1>>,
      <<1, 2, 3, 4, 5, 6>>, <<6, 5, 4, 3, 2, 1>>, <<1, 2, 3, 4, 5, 5>> }
ShortVecs == {<<1, 0>>, <<0, 1>>}
OutputNames == {"logits", "output", "predictions", "Logits"}

\* the "outputs" list of a parsed response body
ResponseOutputs ==
    {<<>>} \cup
    {<<[name |-> n, data |-> v]>> : n \in OutputNames, v \in Vecs} \cup
    {<<[name |-> n1, data |-> v1], [name |-> n2, data |-> v2]>> :
        n1 \in OutputNames, n2 \in OutputNames, v1 \in ShortVecs, v2 \in ShortVecs}

\* time.time() differences, in the unit the code keeps them
LatencyChoices == {3}
ElapsedChoices == {0, 2}

\* ----------------------------------------------------- pure functions
Range(s) == {s[k] : k \in 1..Len(s)}

\* the last position of l in the list w: a key written twice keeps the later value
LastPosition(w, l) ==
    CHOOSE k \in 1..Len(w) : w[k] = l /\ \A m \in (k + 1)..Len(w) : w[m] # l

\* {wnid: i for i, wnid in enumerate(wnids)}: a repeated id keeps its last index
EnumerateDict(w) == [l \in Range(w) |-> LastPosition(w, l) - 1]

\* the first output, in response order, whose name is in the allow-list
AllowList == {"logits", "output", "predictions"}
RECURSIVE SelectOutput(_)
SelectOutput(outputs) ==
    IF Len(outputs) = 0 THEN [found |-> FALSE, data |-> <<>>]
    ELSE IF outputs[1].name \in AllowList
         THEN [found |-> TRUE, data |-> outputs[1].data]
         ELSE SelectOutput(Tail(outputs))

SelectedOutputs == {SelectOutput(r) : r \in ResponseOutputs}

\* np.argmax of a non-empty array: the first index of the maximum
ArgMax(v) ==
    (CHOOSE k \in 1..Len(v) :
        /\ \A m \in 1..Len(v) : v[m] <= v[k]
        /\ \A m \in 1..(k - 1) : v[m] < v[k]) - 1

RECURSIVE AscendingOrders(_, _)
\* the orders of the index set S in which the values of v ascend
AscendingOrders(v, S) ==
    IF S = {} THEN {<<>>}
    ELSE UNION { {<<x>> \o p : p \in AscendingOrders(v, S \ {x})} :
                 x \in {y \in S : \A z \in S : v[y + 1] <= v[z + 1]} }

\* np.argsort(v) with the default kind: an index order in which the values
\* ascend; the default sort is not stable, so equal values come in any order
ArgsortResults(v) == AscendingOrders(v, 0..(Len(v) - 1))

\* order[-5:][::-1]
TopFive(order) ==
    LET n == Len(order)
        last == SubSeq(order, IF n > TopK THEN n - TopK + 1 ELSE 1, n)
    IN  Reverse(last)

\* np.argsort(row)[-5:][::-1]: the values top5_indices can take
Top5Indices(row) == {TopFive(order) : order \in ArgsortResults(row)}

\* the top-ranked index compared as it is
IsTop1Exact(top5_indices, true_class_idx) == top5_indices[1] = true_class_idx

\* evaluate_top5: "same last 3 digits" comparison of the top-ranked index
IsTop1Correct(top5_indices, true_class_idx) ==
    top5_indices[1] % Modulus = true_class_idx % Modulus

\* the ranks below the first searched for the true class
InTailOfTop5(top5_indices, true_class_idx) ==
    (true_class_idx % Modulus) \in
        {top5_indices[k] % Modulus : k \in 2..Len(top5_indices)}

\* evaluate_top5: true_class_mod in top5_mod
IsTop5Correct(top5_indices, true_class_idx) ==
    (true_class_idx % Modulus) \in {idx % Modulus : idx \in Range(top5_indices)}

\* evaluate_with_mapping: predicted_imagenet_idx == true_imagenet_idx
IsCorrect(predicted_imagenet_idx, true_imagenet_idx) ==
    predicted_imagenet_idx = true_imagenet_idx

RECURSIVE SortInts(_)
\* the sample in ascending order, as np.percentile arranges it
SortInts(a) ==
    IF Len(a) = 0 THEN <<>>
    ELSE LET k == CHOOSE x \in 1..Len(a) : \A m \in 1..Len(a) : a[x] <= a[m]
         IN  <<a[k]>> \o SortInts(SubSeq(a, 1, k - 1) \o SubSeq(a, k + 1, Len(a)))

\* linear interpolation at rank (n - 1) * q / 100 of the values in the order given
Interpolate(s, q) ==
    LET pos == (Len(s) - 1) * q
        lo == pos \div 100
        frac == pos % 100
    IN  [num |-> 100 * s[lo + 1] +
                 (IF frac = 0 THEN 0 ELSE frac * (s[lo + 2] - s[lo + 1])),
         den |-> 100]

\* interpolation over the sample as collected, without arranging it
PercentileUnsorted(a, q) == Interpolate(a, q)

\* np.percentile(a, q) of a non-empty sample, as a fraction
Percentile(a, q) == Interpolate(SortInts(a), q)

RECURSIVE SumSeq(_)
SumSeq(a) == IF Len(a) = 0 THEN 0 ELSE Head(a) + SumSeq(Tail(a))

\* np.mean(a) of a non-empty sample, as a fraction
Mean(a) == [num |-> SumSeq(a), den |-> Len(a)]

\* "np.mean(latencies) if latencies else 0" and the two percentiles
LatencyStats(a) ==
    IF Len(a) = 0
    THEN [avg |-> [num |-> 0, den |-> 1], p95 |-> [num |-> 0, den |-> 1],
          p99 |-> [num |-> 0, den |-> 1]]
    ELSE [avg |-> Mean(a), p95 |-> Percentile(a, 95), p99 |-> Percentile(a, 99)]

\* a / b with 1 in place of the guarded 0
RatioOrOne(a, b) == IF b > 0 THEN [num |-> a, den |-> b] ELSE [num |-> 1, den |-> 1]

\* a / b as the fraction it is, and the value of "a / b if b > 0 else 0"
Ratio(a, b) == IF b > 0 THEN [num |-> a, den |-> b] ELSE [num |-> 0, den |-> 1]

DetailCap == 100     \* all_results[:100]
SyntheticDetailCap == 20    \* evaluate_synthetic: all_results[:20]

\* -------------------------------------------------------------- state
VARIABLES
    script,                     \* which evaluator runs
    pc,                         \* position in main / evaluate_model
    raised,                     \* the exception that left evaluate_model, if any
    failure,                    \* why evaluate_model returned None, if it did
    dataset,                    \* wnids.txt, train/ and val/val_annotations.txt as found
    tiny_imagenet_to_imagenet,  \* the loaded cross-space mapping
    val_annotations,            \* items of the annotation dict, in file order
    class_to_idx,               \* label id -> index
    scan,                       \* items of val_annotations already looked at
    val_images,                 \* the sample list
    i,                          \* samples the evaluation loop has taken
    correct, total,             \* correct is top1_correct in evaluate_top5
    top5_correct,
    class_correct, class_total,
    latencies, all_results,
    true_idx,                   \* true_imagenet_idx / true_class_idx of the last sample
    output_data,                \* the output row of the last scored sample
    top5_indices,               \* evaluate_top5: its ranking
    predicted,                  \* predicted_imagenet_idx / top1_index / argmax of the last scored sample
    is_correct, is_top5_correct,
    last,                       \* how the last iteration ended
    sent,                       \* inference requests the last iteration sent
    only_non200,                \* every iteration so far got a status other than 200
    latency_stats,              \* avg_latency, p95_latency, p99_latency
    elapsed_time,
    results,                    \* what evaluate_model returned to main
    saved,                      \* whether save_results wrote the report file
    exit_status,
    run,                        \* create_imagenet_mapping: 1 in the first process, 2 in the second
    first_wnids,                \* what get_tiny_imagenet_classes gave the first process
    hash_seed,                  \* the process's string hash seed
    imagenet_class_index,
    tiny_imagenet_wnids,
    class_mapping,
    sample_log,                 \* per listed sample: how far its iteration has come
    response_outputs,           \* the "outputs" list of the response being examined
    args_num_samples,           \* evaluate_synthetic: args.num_samples
    successful,                 \* evaluate_synthetic: responses with status 200
    val_dir,                    \* the val directory: folder name -> image files
    input_file, output_file,    \* fix_json: the contents of its two files
    fixed                       \* fix_json: what it returned

vars == <<script, pc, raised, failure, dataset, tiny_imagenet_to_imagenet, val_annotations,
          class_to_idx, scan, val_images, i, correct, total, top5_correct,
          class_correct, class_total, latencies, all_results, true_idx,
          output_data, top5_indices, predicted, is_correct, is_top5_correct, last, sent, only_non200,
          latency_stats, elapsed_time, results, saved, exit_status,
          run, first_wnids, hash_seed, imagenet_class_index, tiny_imagenet_wnids,
          class_mapping, sample_log, response_outputs, args_num_samples, successful, val_dir,
          input_file, output_file, fixed>>

WithMapping == "evaluate_with_mapping"
Top5 == "evaluate_top5"
Accuracy == "evaluate_accuracy"
Builder == "create_imagenet_mapping"
Scripts == {WithMapping, Top5, Accuracy, Builder}
Synthetic == "evaluate_synthetic"

EmptyDict == [k \in {} |-> 0]
NoResults == [returned |-> FALSE]

resolveVars == <<dataset, tiny_imagenet_to_imagenet, val_annotations, class_to_idx, scan, val_images>>
counterVars == <<correct, total, top5_correct, class_correct, class_total, latencies, all_results>>
localVars == <<true_idx, output_data, top5_indices, predicted, is_correct, is_top5_correct>>
ghostVars == <<last, sent, only_non200>>
finalVars == <<latency_stats, elapsed_time>>
mainVars == <<results, saved, exit_status>>
builderVars == <<run, first_wnids, hash_seed, imagenet_class_index, tiny_imagenet_wnids,
                 class_mapping>>
NoWnids == [resolved |-> FALSE, wnids |-> <<>>]
otherVars == <<sample_log, response_outputs, args_num_samples, successful, val_dir,
               input_file, output_file, fixed>>
NotWritten == [written |-> FALSE, content |-> <<>>]

\* the mapping builder before it has run
BuilderIdle ==
    /\ run = 1
    /\ first_wnids = NoWnids
    /\ hash_seed = 0
    /\ imagenet_class_index = EmptyDict
    /\ tiny_imagenet_wnids = <<>>
    /\ class_mapping = EmptyDict

\* the state that belongs to the other scripts, before they have run
OthersIdle ==
    /\ sample_log = <<>>
    /\ response_outputs = <<>>
    /\ args_num_samples = 0
    /\ successful = 0
    /\ val_dir = EmptyDict
    /\ input_file = <<>>
    /\ output_file = NotWritten
    /\ fixed = "none"

Init ==
    /\ script \in Scripts
    /\ pc = (IF script = WithMapping THEN "load_class_mapping"
             ELSE IF script = Top5 THEN "load_val_annotations"
             ELSE IF script = Accuracy THEN "connect"
             ELSE "get_imagenet_classes")
    /\ raised = "none"
    /\ failure = "none"
    /\ dataset = NoDataset
    /\ tiny_imagenet_to_imagenet = EmptyDict
    /\ val_annotations = <<>>
    /\ class_to_idx = EmptyDict
    /\ scan = 0
    /\ val_images = <<>>
    /\ i = 0
    /\ correct = 0 /\ total = 0 /\ top5_correct = 0
    /\ class_correct = EmptyDict /\ class_total = EmptyDict
    /\ latencies = <<>> /\ all_results = <<>>
    /\ true_idx = 0 /\ predicted = 0
    /\ output_data = <<>> /\ top5_indices = <<>>
    /\ is_correct = FALSE /\ is_top5_correct = FALSE
    /\ last = "none"
    /\ sent = 0 /\ only_non200 = TRUE
    /\ latency_stats = LatencyStats(<<>>)
    /\ elapsed_time = 0
    /\ results = NoResults
    /\ saved = FALSE
    /\ exit_status = 0
    /\ BuilderIdle
    /\ OthersIdle

\* ------------------------------------------------- label resolution
\* load_class_mapping and the check of its result in evaluate_model
LoadClassMapping ==
    /\ pc = "load_class_mapping"
    /\ \/ /\ pc' = "returned_none"        \* open or json.load raised: None, None
          /\ failure' = "mapping_file"
          /\ UNCHANGED tiny_imagenet_to_imagenet
       \/ /\ \E m \in MappingFiles : tiny_imagenet_to_imagenet' = m
          /\ pc' = "load_val_annotations"
          /\ UNCHANGED failure
    /\ UNCHANGED <<script, otherVars, builderVars, raised, dataset, val_annotations, class_to_idx, scan, val_images, i,
                   counterVars, localVars, ghostVars, finalVars, mainVars>>

\* the indices taken from the annotation labels whatever wnids.txt holds
ClassToIdxSorted(ann, wnids) == EnumerateDict(Sorted(Range(ann)))

\* the class_to_idx load_val_annotations builds from the two files
ClassToIdx(ann, wnids) ==
    IF wnids.exists THEN EnumerateDict(wnids.lines)
    ELSE EnumerateDict(Sorted(Range(ann)))

\* load_val_annotations and the check of its result in evaluate_model
LoadValAnnotations ==
    /\ pc = "load_val_annotations"
    /\ \E wnids \in WnidsFiles, train \in TrainDirs :
          \/ /\ dataset' = [wnids |-> wnids, train |-> train, annotations |-> NoFile]
             /\ pc' = "returned_none"     \* val_annotations.txt not found
             /\ failure' = "label_space"
             /\ UNCHANGED <<val_annotations, class_to_idx>>
          \/ /\ \E ann \in AnnotationFiles :
                  /\ dataset' = [wnids |-> wnids, train |-> train,
                                  annotations |-> [exists |-> TRUE, lines |-> ann]]
                  /\ val_annotations' =
                         [k \in 1..Len(ann) |-> [img |-> k, class_id |-> ann[k]]]
                  /\ class_to_idx' = ClassToIdx(ann, wnids)
             /\ pc' = "check_img_dir"
             /\ UNCHANGED failure
    /\ UNCHANGED <<script, otherVars, builderVars, raised, tiny_imagenet_to_imagenet, scan, val_images, i,
                   counterVars, localVars, ghostVars, finalVars, mainVars>>

\* os.path.exists(val_img_dir)
CheckImgDir ==
    /\ pc = "check_img_dir"
    /\ \E exists \in BOOLEAN :
          /\ pc' = (IF exists THEN "prepare" ELSE "returned_none")
          /\ failure' = (IF exists THEN failure ELSE "img_dir")
    /\ UNCHANGED <<script, otherVars, builderVars, raised, resolveVars, i, counterVars, localVars, ghostVars, finalVars, mainVars>>

\* one iteration of "for img_file, class_id in val_annotations.items()"
PrepareSample ==
    /\ pc = "prepare"
    /\ scan < Len(val_annotations)
    /\ LET item == val_annotations[scan + 1]
       IN  \E exists \in BOOLEAN :
             IF ~exists
             THEN /\ scan' = scan + 1
                  /\ UNCHANGED <<val_images, pc, raised, failure>>
             ELSE IF item.class_id \in DOMAIN class_to_idx
             THEN /\ scan' = scan + 1
                  /\ val_images' = Append(val_images,
                         [path |-> item.img, class_id |-> item.class_id,
                          class_idx |-> class_to_idx[item.class_id]])
                  /\ UNCHANGED <<pc, raised, failure>>
             ELSE /\ pc' = "raised"       \* class_to_idx[class_id]
                  /\ raised' = "KeyError"
                  /\ UNCHANGED <<scan, val_images, failure>>
    /\ UNCHANGED <<script, otherVars, builderVars, dataset, tiny_imagenet_to_imagenet, val_annotations, class_to_idx, i,
                   counterVars, localVars, ghostVars, finalVars, mainVars>>

Prefix(s, n) == SubSeq(s, 1, IF n < Len(s) THEN n ELSE Len(s))

\* "if args.num_samples is not None and ...", then the counters are set up;
\* the dataset files, val_annotations and class_to_idx are not read again and
\* are dropped here
LimitSamples ==
    /\ pc = "prepare"
    /\ scan = Len(val_annotations)
    /\ \/ UNCHANGED val_images                                  \* --num-samples not given
       \/ \E num_samples \in 0..MaxSamples :
             val_images' = (IF num_samples < Len(val_images)
                            THEN Prefix(val_images, num_samples) ELSE val_images)
    /\ dataset' = NoDataset
    /\ val_annotations' = <<>>
    /\ class_to_idx' = EmptyDict
    /\ scan' = 0
    /\ pc' = "loop"
    /\ UNCHANGED <<script, otherVars, builderVars, raised, failure, tiny_imagenet_to_imagenet, i,
                   counterVars, localVars, ghostVars, finalVars, mainVars>>

\* ------------------------------------- evaluate_accuracy: its prelude
\* httpclient.InferenceServerClient(...) and client.is_model_ready(...)
ConnectTriton ==
    /\ pc = "connect"
    /\ \E outcome \in {"ready", "not_ready", "exception"} :
          /\ pc' = (IF outcome = "ready" THEN "scan_dataset" ELSE "returned_none")
          /\ failure' = (IF outcome = "ready" THEN failure ELSE "triton")
    /\ UNCHANGED <<script, otherVars, builderVars, raised, resolveVars, i, counterVars, localVars, ghostVars, finalVars, mainVars>>

\* folder names (class folders) or file name prefixes (flat directory)
FolderNames == {DecStr(k) : k \in 0..(NumLabels - 1)} \cup {Label(1)}

\* the dataset scan of evaluate_accuracy and its --num-samples cut
ScanDataset ==
    /\ pc = "scan_dataset"
    /\ \/ /\ pc' = "returned_none"        \* not a directory, or os.listdir raised
          /\ failure' = "dataset_scan"
          /\ UNCHANGED val_images
       \/ /\ \E ids \in SeqsUpTo(FolderNames, MaxSamples), cut \in 0..MaxSamples :
               val_images' = Prefix([k \in 1..Len(ids) |->
                                 [path |-> k, class_id |-> ids[k], class_idx |-> 0]], cut)
          /\ pc' = "loop"
          /\ UNCHANGED failure
    /\ UNCHANGED <<script, otherVars, builderVars, raised, dataset, tiny_imagenet_to_imagenet, val_annotations, class_to_idx,
                   scan, i, counterVars, localVars, ghostVars, finalVars, mainVars>>

\* ------------------------------------------------ the evaluation loop
InLoop == pc = "loop" /\ i < Len(val_images)
Sample == val_images[i + 1]
HasClassCounters == script \in {WithMapping, Accuracy}
HasLatencies == script \in {WithMapping, Top5}

\* tiny_imagenet_to_imagenet.get(str(true_class_idx), -1), before int()
MapKey == DecStr(Sample.class_idx)
HasEntry == MapKey \in DOMAIN tiny_imagenet_to_imagenet
\* int(...) of it succeeds
EntryIsInt == IF HasEntry THEN IsDecimal(tiny_imagenet_to_imagenet[MapKey]) ELSE TRUE
\* a missing entry resolved to index 0
TrueImagenetIdxOrZero ==
    IF HasEntry THEN DigitsValue(tiny_imagenet_to_imagenet[MapKey]) ELSE 0

TrueImagenetIdx ==
    IF HasEntry THEN DigitsValue(tiny_imagenet_to_imagenet[MapKey]) ELSE Unmapped

\* the ground truth index the sample is scored against
TrueIdx ==
    IF script = WithMapping THEN TrueImagenetIdx
    ELSE IF script = Top5 THEN Sample.class_idx
    ELSE 0

\* "if true_class_id not in class_total: class_total[true_class_id] = 0"
InitClass(counts, class_id) ==
    IF class_id \in DOMAIN counts THEN counts
    ELSE [c \in DOMAIN counts \cup {class_id} |-> IF c = class_id THEN 0 ELSE counts[c]]

\* a per-class counter that is not advanced
KeepCount(counts, class_id) == counts

\* class_total[true_class_id] += 1
Increment(counts, class_id) == [counts EXCEPT ![class_id] = @ + 1]

\* the statements every iteration runs before preprocess_image
BeforePreprocess ==
    /\ IF script = WithMapping THEN EntryIsInt ELSE TRUE
    /\ true_idx' = TrueIdx

\* an iteration that leaves the sample out: "continue" or the except clause
Excluded(tag, initClass, posted, responded, badStatus) ==
    /\ i' = i + 1
    /\ last' = tag
    /\ class_total' = (IF initClass /\ HasClassCounters
                       THEN InitClass(class_total, Sample.class_id) ELSE class_total)
    /\ class_correct' = (IF initClass /\ HasClassCounters
                         THEN InitClass(class_correct, Sample.class_id) ELSE class_correct)
    /\ sent' = (IF posted THEN 1 ELSE 0)
    /\ only_non200' = (only_non200 /\ badStatus)
    /\ IF responded /\ HasLatencies
       THEN \E latency \in LatencyChoices : latencies' = Append(latencies, latency)
       ELSE UNCHANGED latencies
    /\ UNCHANGED <<correct, total, top5_correct, all_results,
                   output_data, top5_indices, predicted, is_correct, is_top5_correct>>

\* evaluate_with_mapping: int() of the mapping entry raises ValueError
MappingValueError ==
    /\ InLoop
    /\ script = WithMapping
    /\ ~EntryIsInt
    /\ Excluded("mapping_value_error", FALSE, FALSE, FALSE, FALSE)
    /\ UNCHANGED <<script, otherVars, builderVars, pc, raised, failure, resolveVars, true_idx, finalVars, mainVars>>

\* a preprocessing failure after which the request is sent all the same
PreprocessFailPosts ==
    /\ InLoop
    /\ BeforePreprocess
    /\ Excluded("preprocess_failed", TRUE, TRUE, TRUE, FALSE)
    /\ UNCHANGED <<script, otherVars, builderVars, pc, raised, failure, resolveVars, finalVars, mainVars>>

\* a preprocessing failure met before the class counters are set up
PreprocessFailBeforeCounters ==
    /\ InLoop
    /\ BeforePreprocess
    /\ Excluded("preprocess_failed", FALSE, FALSE, FALSE, FALSE)
    /\ UNCHANGED <<script, otherVars, builderVars, pc, raised, failure, resolveVars, finalVars, mainVars>>

\* preprocess_image returned None
PreprocessFail ==
    /\ InLoop
    /\ BeforePreprocess
    /\ Excluded("preprocess_failed", TRUE, FALSE, FALSE, FALSE)
    /\ UNCHANGED <<script, otherVars, builderVars, pc, raised, failure, resolveVars, finalVars, mainVars>>

\* requests.post / client.infer raised
TransportException ==
    /\ InLoop
    /\ BeforePreprocess
    /\ Excluded("transport_exception", TRUE, TRUE, FALSE, FALSE)
    /\ UNCHANGED <<script, otherVars, builderVars, pc, raised, failure, resolveVars, finalVars, mainVars>>

\* a status other than 200 counted as a scored, incorrect sample
Non200Counted ==
    /\ InLoop
    /\ script \in {WithMapping, Top5}
    /\ BeforePreprocess
    /\ i' = i + 1
    /\ last' = "non_200"
    /\ total' = total + 1
    /\ sent' = 1
    /\ \E latency \in LatencyChoices : latencies' = Append(latencies, latency)
    /\ UNCHANGED <<script, otherVars, builderVars, pc, raised, failure, resolveVars, correct, top5_correct, class_correct,
                   class_total, all_results, output_data, top5_indices, predicted,
                   is_correct, is_top5_correct, only_non200, finalVars, mainVars>>

\* response.status_code != 200
Non200 ==
    /\ InLoop
    /\ script \in {WithMapping, Top5}
    /\ BeforePreprocess
    /\ Excluded("non_200", TRUE, TRUE, TRUE, TRUE)
    /\ UNCHANGED <<script, otherVars, builderVars, pc, raised, failure, resolveVars, finalVars, mainVars>>

\* response.json() raised, or the body is no object, or reshape raised
BadBody ==
    /\ InLoop
    /\ script \in {WithMapping, Top5}
    /\ BeforePreprocess
    /\ Excluded("bad_body", TRUE, TRUE, TRUE, FALSE)
    /\ UNCHANGED <<script, otherVars, builderVars, pc, raised, failure, resolveVars, finalVars, mainVars>>

\* no output of the response has a recognised name
NoOutputTensor ==
    /\ InLoop
    /\ script \in {WithMapping, Top5}
    /\ BeforePreprocess
    /\ \E sel \in SelectedOutputs : ~sel.found
    /\ Excluded("no_output", TRUE, TRUE, TRUE, FALSE)
    /\ UNCHANGED <<script, otherVars, builderVars, pc, raised, failure, resolveVars, finalVars, mainVars>>

\* the output is empty: np.argmax raises ValueError, top5_indices[0] IndexError
EmptyOutput ==
    /\ InLoop
    /\ BeforePreprocess
    /\ \E sel \in SelectedOutputs : sel.found /\ Len(sel.data) = 0
    /\ Excluded("empty_output", TRUE, TRUE, TRUE, FALSE)
    /\ UNCHANGED <<script, otherVars, builderVars, pc, raised, failure, resolveVars, finalVars, mainVars>>

\* the detail record appended for a scored sample
DetailRecord(c1, c5) ==
    IF script = Top5
    THEN [image |-> Sample.path, true_class_id |-> Sample.class_id,
          top1_correct |-> c1, top5_correct |-> c5]
    ELSE [image |-> Sample.path, true_class_id |-> Sample.class_id, correct |-> c1]

\* the statements from "if is_correct:" to all_results.append(result)
Scored(row, ranking, pred, c1, c5) ==
    /\ i' = i + 1
    /\ last' = "scored"
    /\ output_data' = row
    /\ top5_indices' = ranking
    /\ predicted' = pred
    /\ is_correct' = c1
    /\ is_top5_correct' = c5
    /\ correct' = (IF c1 THEN correct + 1 ELSE correct)
    /\ top5_correct' = (IF c5 THEN top5_correct + 1 ELSE top5_correct)
    /\ total' = total + 1
    /\ class_correct' = (IF ~HasClassCounters THEN class_correct
                         ELSE IF c1 THEN Increment(InitClass(class_correct, Sample.class_id), Sample.class_id)
                         ELSE InitClass(class_correct, Sample.class_id))
    /\ class_total' = (IF ~HasClassCounters THEN class_total
                       ELSE Increment(InitClass(class_total, Sample.class_id), Sample.class_id))
    /\ all_results' = Append(all_results, DetailRecord(c1, c5))
    /\ sent' = 1
    /\ only_non200' = FALSE
    /\ IF HasLatencies
       THEN \E latency \in LatencyChoices : latencies' = Append(latencies, latency)
       ELSE UNCHANGED latencies

\* evaluate_with_mapping scores a sample
ScoreWithMapping ==
    /\ InLoop
    /\ script = WithMapping
    /\ BeforePreprocess
    /\ \E sel \in SelectedOutputs :
          /\ sel.found
          /\ Len(sel.data) > 0
          /\ LET predicted_imagenet_idx == ArgMax(sel.data)
             IN  Scored(sel.data, <<>>, predicted_imagenet_idx,
                        IsCorrect(predicted_imagenet_idx, TrueImagenetIdx), FALSE)
    /\ UNCHANGED <<script, otherVars, builderVars, pc, raised, failure, resolveVars, finalVars, mainVars>>

\* evaluate_top5 scores a sample
ScoreTop5 ==
    /\ InLoop
    /\ script = Top5
    /\ BeforePreprocess
    /\ \E sel \in SelectedOutputs :
          /\ sel.found
          /\ Len(sel.data) > 0
          /\ \E ranking \in Top5Indices(sel.data) :
                Scored(sel.data, ranking, ranking[1],
                       IsTop1Correct(ranking, Sample.class_idx),
                       IsTop5Correct(ranking, Sample.class_idx))
    /\ UNCHANGED <<script, otherVars, builderVars, pc, raised, failure, resolveVars, finalVars, mainVars>>

\* evaluate_accuracy: predicted_class == true_class, two str
IsCorrectClass(predicted_idx, true_class) == DecStr(predicted_idx) = true_class

\* evaluate_accuracy scores a sample
ScoreAccuracy ==
    /\ InLoop
    /\ script = Accuracy
    /\ BeforePreprocess
    /\ \E output \in Vecs :
          /\ Len(output) > 0
          /\ Scored(output, <<>>, ArgMax(output),
                    IsCorrectClass(ArgMax(output), Sample.class_id), FALSE)
    /\ UNCHANGED <<script, otherVars, builderVars, pc, raised, failure, resolveVars, finalVars, mainVars>>

\* evaluate_accuracy: the response has no "logits" output, as_numpy returns
\* None; np.argmax(None) gives 0 or raises, depending on the numpy build
AccuracyNoLogits ==
    /\ InLoop
    /\ script = Accuracy
    /\ BeforePreprocess
    /\ \/ Excluded("argmax_raised", TRUE, TRUE, TRUE, FALSE)
       \/ Scored(<<>>, <<>>, 0, IsCorrectClass(0, Sample.class_id), FALSE)
    /\ UNCHANGED <<script, otherVars, builderVars, pc, raised, failure, resolveVars, finalVars, mainVars>>

\* ------------------------------------------------ after the loop
\* the detailed_results field of the results dict: evaluate_with_mapping and
\* evaluate_top5 write all_results[:100], evaluate_synthetic all_results[:20],
\* evaluate_accuracy all_results itself
DetailedResults(s, records) ==
    IF s = Accuracy THEN records
    ELSE IF s = Synthetic THEN Prefix(records, SyntheticDetailCap)
    ELSE Prefix(records, DetailCap)

\* the results dict; the field names are those of evaluate_with_mapping, and
\* evaluate_top5 calls overall_accuracy top1_accuracy, correct_count
\* top1_correct_count
Report(elapsed, stats) ==
    [ returned |-> TRUE,
      overall_accuracy |-> Ratio(correct, total),
      top5_accuracy |-> Ratio(top5_correct, total),
      correct_count |-> correct,
      top5_correct_count |-> top5_correct,
      total_count |-> total,
      per_class_accuracy |->
          [c \in DOMAIN class_total |-> Ratio(class_correct[c], class_total[c])],
      avg_latency_ms |-> stats.avg,
      p95_latency_ms |-> stats.p95,
      p99_latency_ms |-> stats.p99,
      images_per_second |-> (IF elapsed > 0 THEN Ratio(total, elapsed)
                             ELSE Ratio(0, 0)),
      detailed_results |-> DetailedResults(script, all_results) ]

\* the summary line formats total/elapsed_time without a guard
SummaryRaises(elapsed) == elapsed = 0

\* from "Calculate overall accuracy" to "return results"
Finalize ==
    /\ pc = "loop"
    /\ i = Len(val_images)
    /\ latency_stats' = LatencyStats(latencies)
    /\ \E elapsed \in ElapsedChoices :
          /\ elapsed_time' = elapsed
          /\ IF SummaryRaises(elapsed)
             THEN /\ pc' = "raised"
                  /\ raised' = "ZeroDivisionError"
                  /\ UNCHANGED results
             ELSE /\ pc' = "returned"
                  /\ results' = Report(elapsed, latency_stats')
                  /\ UNCHANGED raised
    /\ UNCHANGED <<script, otherVars, builderVars, failure, resolveVars, i, counterVars, localVars, ghostVars, saved, exit_status>>

\* main: "if results:" and save_results, which reports a write error and returns
MainSave ==
    /\ pc = "returned"
    /\ \E written \in BOOLEAN : saved' = written
    /\ exit_status' = 0
    /\ pc' = "exited"
    /\ UNCHANGED <<script, otherVars, builderVars, raised, failure, resolveVars, i, counterVars, localVars, ghostVars, finalVars, results>>

\* main without the sys.exit(1): the process ends with status 0
MainFailExitsZero ==
    /\ pc = "returned_none"
    /\ exit_status' = 0
    /\ pc' = "exited"
    /\ UNCHANGED <<script, otherVars, builderVars, raised, failure, resolveVars, i, counterVars, localVars, ghostVars, finalVars, results, saved>>

\* main: evaluate_model returned None, sys.exit(1)
MainFail ==
    /\ pc = "returned_none"
    /\ exit_status' = 1
    /\ pc' = "exited"
    /\ UNCHANGED <<script, otherVars, builderVars, raised, failure, resolveVars, i, counterVars, localVars, ghostVars, finalVars, results, saved>>

\* main: an exception left evaluate_model; the interpreter exits with status 1
MainCrash ==
    /\ pc = "raised"
    /\ exit_status' = 1
    /\ pc' = "exited"
    /\ UNCHANGED <<script, otherVars, builderVars, raised, failure, resolveVars, i, counterVars, localVars, ghostVars, finalVars, results, saved>>

\* ------------------------------------------ create_imagenet_mapping
\* val_annotations.txt as the mapping builder may find it
AnnotationsFound ==
    {NoFile} \cup {[exists |-> TRUE, lines |-> ann] : ann \in AnnotationFiles}

BuilderDatasets ==
    {[wnids |-> w, train |-> t, annotations |-> a] :
        w \in WnidsFiles, t \in ListedTrainDirs, a \in AnnotationsFound}

\* hash(wnid) of a str under the seed of the process
HashSeeds == {-3, 1001}
Hash(seed, wnid) == seed * wnid[Len(wnid)]

evaluatorVars == <<raised, tiny_imagenet_to_imagenet, val_annotations, class_to_idx, scan,
                   val_images, i, counterVars, localVars, ghostVars, finalVars, results,
                   exit_status>>

\* get_imagenet_classes: words.txt, when present, names the labels
GetImagenetClasses ==
    /\ script = Builder
    /\ pc = "get_imagenet_classes"
    /\ \E seed \in HashSeeds, words \in {{}, Labels} :
          /\ hash_seed' = seed
          /\ imagenet_class_index' = [wnid \in words |-> Hash(seed, wnid) % HashRange]
    /\ pc' = "get_tiny_imagenet_classes"
    /\ UNCHANGED <<script, otherVars, failure, dataset, evaluatorVars, saved, run, first_wnids,
                   tiny_imagenet_wnids, class_mapping>>

\* the label source with the annotation file tried first
LabelSourceAnnotationsFirst(d) ==
    IF d.annotations.exists THEN "annotations"
    ELSE IF d.wnids.exists THEN "wnids"
    ELSE IF d.train.exists THEN "train"
    ELSE "none"

\* the source get_tiny_imagenet_classes takes the labels from
LabelSource(d) ==
    IF d.wnids.exists THEN "wnids"
    ELSE IF d.train.exists THEN "train"
    ELSE IF d.annotations.exists THEN "annotations"
    ELSE "none"

\* the lists get_tiny_imagenet_classes can return; list(set(...)) holds the
\* distinct labels in the order of their hashes, which changes with the process
WnidLists(d) ==
    IF LabelSource(d) = "wnids" THEN {d.wnids.lines}
    ELSE IF LabelSource(d) = "train" THEN {d.train.dirs}
    ELSE Orders(Range(d.annotations.lines))

\* get_tiny_imagenet_classes and the check of its result in main
GetTinyImagenetClasses ==
    /\ script = Builder
    /\ pc = "get_tiny_imagenet_classes"
    /\ \E d \in (IF run = 1 THEN BuilderDatasets ELSE {dataset}) :
          /\ dataset' = d
          /\ IF LabelSource(d) = "none"
             THEN /\ failure' = "label_space"
                  /\ pc' = "exited"
                  /\ UNCHANGED tiny_imagenet_wnids
             ELSE \/ /\ \E wnids \in WnidLists(d) : tiny_imagenet_wnids' = wnids
                     /\ pc' = "create_class_mapping"
                     /\ UNCHANGED failure
                  \/ /\ failure' = "resolver_exception"   \* open or a short line raised
                     /\ pc' = "exited"
                     /\ UNCHANGED tiny_imagenet_wnids
    /\ UNCHANGED <<script, otherVars, evaluatorVars, saved, run, first_wnids, hash_seed,
                   imagenet_class_index, class_mapping>>

\* create_class_mapping with entries for the labels of the class index only
CreateClassMappingKnownOnly ==
    /\ script = Builder
    /\ pc = "create_class_mapping"
    /\ class_mapping' =
          [key \in {DecStr(k - 1) : k \in {j \in 1..Len(tiny_imagenet_wnids) :
                                              tiny_imagenet_wnids[j] \in DOMAIN imagenet_class_index}} |->
              DecStr(imagenet_class_index[tiny_imagenet_wnids[DigitsValue(key) + 1]])]
    /\ pc' = "save_mapping"
    /\ UNCHANGED <<script, otherVars, failure, dataset, evaluatorVars, saved, run, first_wnids,
                   hash_seed, imagenet_class_index, tiny_imagenet_wnids>>

\* create_class_mapping
CreateClassMapping ==
    /\ script = Builder
    /\ pc = "create_class_mapping"
    /\ class_mapping' =
          [key \in {DecStr(k - 1) : k \in 1..Len(tiny_imagenet_wnids)} |->
              LET wnid == tiny_imagenet_wnids[DigitsValue(key) + 1]
              IN  DecStr(IF wnid \in DOMAIN imagenet_class_index
                         THEN imagenet_class_index[wnid]
                         ELSE Hash(hash_seed, wnid) % HashRange)]
    /\ pc' = "save_mapping"
    /\ UNCHANGED <<script, otherVars, failure, dataset, evaluatorVars, saved, run, first_wnids,
                   hash_seed, imagenet_class_index, tiny_imagenet_wnids>>

\* main: json.dump of the mapping, a write error is reported and main returns
SaveMapping ==
    /\ script = Builder
    /\ pc = "save_mapping"
    /\ \E written \in BOOLEAN : saved' = written
    /\ pc' = "exited"
    /\ UNCHANGED <<script, otherVars, failure, dataset, evaluatorVars, builderVars>>

\* the script is started again on the unchanged dataset directory
RunAgain ==
    /\ script = Builder
    /\ pc = "exited"
    /\ run = 1
    /\ run' = 2
    /\ first_wnids' = [resolved |-> failure = "none", wnids |-> tiny_imagenet_wnids]
    /\ pc' = "get_imagenet_classes"
    /\ failure' = "none"
    /\ saved' = FALSE
    /\ hash_seed' = 0
    /\ imagenet_class_index' = EmptyDict
    /\ tiny_imagenet_wnids' = <<>>
    /\ class_mapping' = EmptyDict
    /\ UNCHANGED <<script, otherVars, dataset, evaluatorVars>>

Next ==
    \/ LoadClassMapping
    \/ LoadValAnnotations
    \/ CheckImgDir
    \/ PrepareSample
    \/ LimitSamples
    \/ ConnectTriton
    \/ ScanDataset
    \/ MappingValueError
    \/ PreprocessFail
    \/ TransportException
    \/ Non200
    \/ BadBody
    \/ NoOutputTensor
    \/ EmptyOutput
    \/ ScoreWithMapping
    \/ ScoreTop5
    \/ ScoreAccuracy
    \/ AccuracyNoLogits
    \/ Finalize
    \/ MainSave
    \/ MainFail
    \/ MainCrash
    \/ GetImagenetClasses
    \/ GetTinyImagenetClasses
    \/ CreateClassMapping
    \/ SaveMapping
    \/ RunAgain

Spec == Init /\ [][Next]_vars

\* ------------------------------------------ the mapping builder alone
BuilderInit == Init /\ script = Builder

BuilderNext ==
    \/ GetImagenetClasses
    \/ GetTinyImagenetClasses
    \/ CreateClassMapping
    \/ SaveMapping
    \/ RunAgain

SpecBuilder == BuilderInit /\ [][BuilderNext]_vars

\* ------------------------------------- the latency statistics alone
\* latencies in milliseconds handed to np.mean and np.percentile
LatencyValues == {1, 2, 5}

LatencyInit ==
    /\ script = WithMapping
    /\ pc = "latency_statistics"
    /\ latencies \in SeqsUpTo(LatencyValues, MaxLatencies)
    /\ raised = "none"
    /\ failure = "none"
    /\ dataset = NoDataset
    /\ tiny_imagenet_to_imagenet = EmptyDict
    /\ val_annotations = <<>>
    /\ class_to_idx = EmptyDict
    /\ scan = 0
    /\ val_images = <<>>
    /\ i = 0
    /\ correct = 0 /\ total = 0 /\ top5_correct = 0
    /\ class_correct = EmptyDict /\ class_total = EmptyDict
    /\ all_results = <<>>
    /\ true_idx = 0 /\ predicted = 0
    /\ output_data = <<>> /\ top5_indices = <<>>
    /\ is_correct = FALSE /\ is_top5_correct = FALSE
    /\ last = "none"
    /\ sent = 0 /\ only_non200 = TRUE
    /\ latency_stats = LatencyStats(<<>>)
    /\ elapsed_time = 0
    /\ results = NoResults
    /\ saved = FALSE
    /\ exit_status = 0
    /\ BuilderIdle
    /\ OthersIdle

\* "Calculate latency statistics"
LatencyStatistics ==
    /\ pc = "latency_statistics"
    /\ latency_stats' = LatencyStats(latencies)
    /\ pc' = "latency_done"
    /\ UNCHANGED <<script, otherVars, builderVars, raised, failure, resolveVars, i, counterVars, localVars,
                   ghostVars, elapsed_time, mainVars>>

SpecLatency == LatencyInit /\ [][LatencyStatistics]_vars

\* ------------------------------------------- the detail list alone
MaxScored == 101     \* scored samples of a run
MaxFragments == 4    \* fragments an input file of fix_json is made of

\* a run that has scored n samples: record k stands for the k-th scored one
DetailInit ==
    /\ script \in {WithMapping, Top5, Accuracy, Synthetic}
    /\ pc = "prepare_results"
    /\ \E n \in 0..MaxScored : all_results = [k \in 1..n |-> k] /\ total = n
    /\ raised = "none"
    /\ failure = "none"
    /\ dataset = NoDataset
    /\ tiny_imagenet_to_imagenet = EmptyDict
    /\ val_annotations = <<>>
    /\ class_to_idx = EmptyDict
    /\ scan = 0
    /\ val_images = <<>>
    /\ i = 0
    /\ correct = 0
    /\ top5_correct = 0
    /\ class_correct = EmptyDict
    /\ class_total = EmptyDict
    /\ latencies = <<>>
    /\ true_idx = 0
    /\ predicted = 0
    /\ output_data = <<>>
    /\ top5_indices = <<>>
    /\ is_correct = FALSE
    /\ is_top5_correct = FALSE
    /\ last = "none"
    /\ sent = 0
    /\ only_non200 = TRUE
    /\ latency_stats = LatencyStats(<<>>)
    /\ elapsed_time = 0
    /\ results = NoResults
    /\ saved = FALSE
    /\ exit_status = 0
    /\ BuilderIdle
    /\ sample_log = <<>>
    /\ response_outputs = <<>>
    /\ args_num_samples = 0
    /\ successful = 0
    /\ val_dir = EmptyDict
    /\ input_file = <<>>
    /\ output_file = NotWritten
    /\ fixed = "none"

\* "Prepare results": the detailed_results field
PrepareResults ==
    /\ pc = "prepare_results"
    /\ results' = [returned |-> TRUE,
                   detailed_results |-> DetailedResults(script, all_results)]
    /\ pc' = "returned"
    /\ UNCHANGED <<script, otherVars, builderVars, raised, failure, resolveVars, i, counterVars,
                   localVars, ghostVars, finalVars, saved, exit_status>>

SpecDetail == DetailInit /\ [][PrepareResults]_vars

\* --------------------------------- the sample loop, statement by statement
\* evaluate_with_mapping and evaluate_top5: one iteration in three steps, the
\* statements before the request, the request, and the statements after it

\* a sample list of n samples whose labels go round the label ids
SampleList(n) ==
    [k \in 1..n |-> [path |-> k, class_id |-> Label(((k - 1) % NumLabels) + 1),
                     class_idx |-> (k - 1) % NumLabels]]

SampleLatencies == {1, 5}
SampleResponseOutputs ==
    {<<>>} \cup
    {<<[name |-> n, data |-> v]>> : n \in {"logits", "Logits"}, v \in {<<>>, <<0, 1>>}}

\* what is known of a listed sample: Pending until its iteration starts
PendingSample ==
    [state |-> "Pending", outcome |-> "none", requests |-> 0, responded |-> FALSE,
     latency |-> 0]

SampleInit ==
    /\ script \in {WithMapping, Top5}
    /\ pc = "loop"
    /\ tiny_imagenet_to_imagenet \in (IF script = WithMapping THEN MappingFiles ELSE {EmptyDict})
    /\ \E n \in 0..MaxSamples :
          /\ val_images = SampleList(n)
          /\ sample_log = [k \in 1..n |-> PendingSample]
    /\ raised = "none"
    /\ failure = "none"
    /\ dataset = NoDataset
    /\ val_annotations = <<>>
    /\ class_to_idx = EmptyDict
    /\ scan = 0
    /\ i = 0
    /\ correct = 0
    /\ total = 0
    /\ top5_correct = 0
    /\ class_correct = EmptyDict
    /\ class_total = EmptyDict
    /\ latencies = <<>>
    /\ all_results = <<>>
    /\ true_idx = 0
    /\ predicted = 0
    /\ output_data = <<>>
    /\ top5_indices = <<>>
    /\ is_correct = FALSE
    /\ is_top5_correct = FALSE
    /\ last = "none"
    /\ sent = 0
    /\ only_non200 = TRUE
    /\ latency_stats = LatencyStats(<<>>)
    /\ elapsed_time = 0
    /\ results = NoResults
    /\ saved = FALSE
    /\ exit_status = 0
    /\ BuilderIdle
    /\ response_outputs = <<>>
    /\ args_num_samples = 0
    /\ successful = 0
    /\ val_dir = EmptyDict
    /\ input_file = <<>>
    /\ output_file = NotWritten
    /\ fixed = "none"

\* the iteration of the current sample ends: "continue", the except clause,
\* or the end of the loop body
NextSample(state, outcome) ==
    /\ sample_log' = [sample_log EXCEPT ![i + 1].state = state, ![i + 1].outcome = outcome]
    /\ i' = i + 1
    /\ pc' = "loop"

\* from "try:" to preprocess_image and the check of its result
BeginSample ==
    /\ InLoop
    /\ IF script = WithMapping /\ ~EntryIsInt
       THEN /\ NextSample("Excluded", "mapping_value_error")      \* int() raised
            /\ UNCHANGED <<true_idx, class_total, class_correct>>
       ELSE /\ true_idx' = TrueIdx
            /\ class_total' = (IF HasClassCounters
                               THEN InitClass(class_total, Sample.class_id) ELSE class_total)
            /\ class_correct' = (IF HasClassCounters
                                 THEN InitClass(class_correct, Sample.class_id)
                                 ELSE class_correct)
            /\ \/ NextSample("Excluded", "preprocess_failed")     \* input_data is None
               \/ /\ sample_log' = [sample_log EXCEPT ![i + 1].state = "Preprocessed"]
                  /\ pc' = "request"
                  /\ UNCHANGED i
    /\ UNCHANGED <<script, builderVars, raised, failure, resolveVars, correct, total,
                   top5_correct, latencies, all_results, output_data, top5_indices, predicted,
                   is_correct, is_top5_correct, ghostVars, finalVars, mainVars,
                   response_outputs, args_num_samples, successful, val_dir, input_file,
                   output_file, fixed>>

\* a request that raised is sent again
PostRequestRetries ==
    /\ pc = "request"
    /\ \/ /\ sample_log' = [sample_log EXCEPT ![i + 1].requests = @ + 1]
          /\ UNCHANGED <<i, pc, latencies>>
       \/ \E latency \in SampleLatencies :
             /\ latencies' = Append(latencies, latency)
             /\ sample_log' = [sample_log EXCEPT ![i + 1].state = "Inferred",
                                                 ![i + 1].requests = @ + 1,
                                                 ![i + 1].responded = TRUE,
                                                 ![i + 1].latency = latency]
             /\ pc' = "response"
             /\ UNCHANGED i
    /\ UNCHANGED <<script, builderVars, raised, failure, resolveVars, correct, total,
                   top5_correct, class_correct, class_total, all_results, localVars, ghostVars,
                   finalVars, mainVars, response_outputs, args_num_samples, successful,
                   val_dir, input_file, output_file, fixed>>

\* the latency of a request that raised is recorded too
PostRequestTimesFailures ==
    /\ pc = "request"
    /\ \E latency \in SampleLatencies :
          /\ latencies' = Append(latencies, latency)
          /\ \/ /\ sample_log' = [sample_log EXCEPT ![i + 1].state = "Excluded",
                                                    ![i + 1].outcome = "transport_exception",
                                                    ![i + 1].requests = @ + 1]
                /\ i' = i + 1
                /\ pc' = "loop"
             \/ /\ sample_log' = [sample_log EXCEPT ![i + 1].state = "Inferred",
                                                    ![i + 1].requests = @ + 1,
                                                    ![i + 1].responded = TRUE,
                                                    ![i + 1].latency = latency]
                /\ pc' = "response"
                /\ UNCHANGED i
    /\ UNCHANGED <<script, builderVars, raised, failure, resolveVars, correct, total,
                   top5_correct, class_correct, class_total, all_results, localVars, ghostVars,
                   finalVars, mainVars, response_outputs, args_num_samples, successful,
                   val_dir, input_file, output_file, fixed>>

\* "Send request": requests.post raises, or returns a response after latency
PostRequest ==
    /\ pc = "request"
    /\ \/ /\ sample_log' = [sample_log EXCEPT ![i + 1].state = "Excluded",
                                              ![i + 1].outcome = "transport_exception",
                                              ![i + 1].requests = @ + 1]
          /\ i' = i + 1
          /\ pc' = "loop"
          /\ UNCHANGED latencies
       \/ \E latency \in SampleLatencies :
             /\ latencies' = Append(latencies, latency)
             /\ sample_log' = [sample_log EXCEPT ![i + 1].state = "Inferred",
                                                 ![i + 1].requests = @ + 1,
                                                 ![i + 1].responded = TRUE,
                                                 ![i + 1].latency = latency]
             /\ pc' = "response"
             /\ UNCHANGED i
    /\ UNCHANGED <<script, builderVars, raised, failure, resolveVars, correct, total,
                   top5_correct, class_correct, class_total, all_results, localVars, ghostVars,
                   finalVars, mainVars, response_outputs, args_num_samples, successful,
                   val_dir, input_file, output_file, fixed>>

\* the statements from "if is_correct:" to all_results.append(result)
ScoreSample(row, ranking, pred, c1, c5) ==
    /\ output_data' = row
    /\ top5_indices' = ranking
    /\ predicted' = pred
    /\ is_correct' = c1
    /\ is_top5_correct' = c5
    /\ correct' = (IF c1 THEN correct + 1 ELSE correct)
    /\ top5_correct' = (IF c5 THEN top5_correct + 1 ELSE top5_correct)
    /\ total' = total + 1
    /\ class_correct' = (IF HasClassCounters /\ c1
                         THEN Increment(class_correct, Sample.class_id) ELSE class_correct)
    /\ class_total' = (IF HasClassCounters
                       THEN Increment(class_total, Sample.class_id) ELSE class_total)
    /\ all_results' = Append(all_results, DetailRecord(c1, c5))
    /\ NextSample("Scored", "scored")

\* from the status check to the end of the loop body
ExamineResponse ==
    /\ pc = "response"
    /\ \/ /\ \E outcome \in {"non_200", "bad_body"} : NextSample("Excluded", outcome)
          /\ UNCHANGED <<counterVars, localVars>>
       \/ \E outputs \in SampleResponseOutputs :
             LET sel == SelectOutput(outputs)
             IN  IF ~sel.found
                 THEN /\ NextSample("Excluded", "no_output")
                      /\ UNCHANGED <<counterVars, localVars>>
                 ELSE IF Len(sel.data) = 0
                 THEN /\ NextSample("Excluded", "empty_output")
                      /\ UNCHANGED <<counterVars, localVars>>
                 ELSE /\ UNCHANGED <<latencies, true_idx>>
                      /\ IF script = WithMapping
                         THEN ScoreSample(sel.data, <<>>, ArgMax(sel.data),
                                          IsCorrect(ArgMax(sel.data), TrueImagenetIdx), FALSE)
                         ELSE \E ranking \in Top5Indices(sel.data) :
                                 ScoreSample(sel.data, ranking, ranking[1],
                                             IsTop1Correct(ranking, Sample.class_idx),
                                             IsTop5Correct(ranking, Sample.class_idx))
    /\ UNCHANGED <<script, builderVars, raised, failure, resolveVars, ghostVars, finalVars,
                   mainVars, response_outputs, args_num_samples, successful, val_dir,
                   input_file, output_file, fixed>>

\* the for loop has gone through val_images
EndLoop ==
    /\ pc = "loop"
    /\ i = Len(val_images)
    /\ pc' = "latency_statistics"
    /\ UNCHANGED <<script, otherVars, builderVars, raised, failure, resolveVars, i, counterVars,
                   localVars, ghostVars, finalVars, mainVars>>

SampleNext ==
    \/ BeginSample
    \/ PostRequest
    \/ ExamineResponse
    \/ EndLoop
    \/ LatencyStatistics

\* the interpreter goes on with the next statement, and requests.post
\* returns or raises
SpecSample == SampleInit /\ [][SampleNext]_vars /\ WF_vars(SampleNext)

\* ------------------------------------- the output tensor search alone
SelectInit ==
    /\ script \in {WithMapping, Top5}
    /\ pc = "find_output"
    /\ response_outputs \in ResponseOutputs
    /\ raised = "none"
    /\ failure = "none"
    /\ dataset = NoDataset
    /\ tiny_imagenet_to_imagenet = EmptyDict
    /\ val_annotations = <<>>
    /\ class_to_idx = EmptyDict
    /\ scan = 0
    /\ val_images = <<>>
    /\ i = 0
    /\ correct = 0
    /\ total = 0
    /\ top5_correct = 0
    /\ class_correct = EmptyDict
    /\ class_total = EmptyDict
    /\ latencies = <<>>
    /\ all_results = <<>>
    /\ true_idx = 0
    /\ predicted = 0
    /\ output_data = <<>>
    /\ top5_indices = <<>>
    /\ is_correct = FALSE
    /\ is_top5_correct = FALSE
    /\ last = "none"
    /\ sent = 0
    /\ only_non200 = TRUE
    /\ latency_stats = LatencyStats(<<>>)
    /\ elapsed_time = 0
    /\ results = NoResults
    /\ saved = FALSE
    /\ exit_status = 0
    /\ BuilderIdle
    /\ sample_log = <<>>
    /\ args_num_samples = 0
    /\ successful = 0
    /\ val_dir = EmptyDict
    /\ input_file = <<>>
    /\ output_file = NotWritten
    /\ fixed = "none"

\* "Find the output tensor" and "if output_data is None: continue"
FindOutputTensor ==
    /\ pc = "find_output"
    /\ output_data' = SelectOutput(response_outputs).data
    /\ pc' = (IF SelectOutput(response_outputs).found THEN "output_found" ELSE "continue")
    /\ UNCHANGED <<script, otherVars, builderVars, raised, failure, resolveVars, i, counterVars,
                   true_idx, top5_indices, predicted, is_correct, is_top5_correct, ghostVars,
                   finalVars, mainVars>>

SpecSelect == SelectInit /\ [][FindOutputTensor]_vars

\* ------------------------------------------------ evaluate_synthetic
SyntheticInit ==
    /\ script = Synthetic
    /\ pc = "loop"
    /\ args_num_samples \in 0..MaxSamples
    /\ raised = "none"
    /\ failure = "none"
    /\ dataset = NoDataset
    /\ tiny_imagenet_to_imagenet = EmptyDict
    /\ val_annotations = <<>>
    /\ class_to_idx = EmptyDict
    /\ scan = 0
    /\ val_images = <<>>
    /\ i = 0
    /\ correct = 0
    /\ total = 0
    /\ top5_correct = 0
    /\ class_correct = EmptyDict
    /\ class_total = EmptyDict
    /\ latencies = <<>>
    /\ all_results = <<>>
    /\ true_idx = 0
    /\ predicted = 0
    /\ output_data = <<>>
    /\ top5_indices = <<>>
    /\ is_correct = FALSE
    /\ is_top5_correct = FALSE
    /\ last = "none"
    /\ sent = 0
    /\ only_non200 = TRUE
    /\ latency_stats = LatencyStats(<<>>)
    /\ elapsed_time = 0
    /\ results = NoResults
    /\ saved = FALSE
    /\ exit_status = 0
    /\ BuilderIdle
    /\ sample_log = <<>>
    /\ response_outputs = <<>>
    /\ successful = 0
    /\ val_dir = EmptyDict
    /\ input_file = <<>>
    /\ output_file = NotWritten
    /\ fixed = "none"

InSyntheticLoop == script = Synthetic /\ pc = "loop" /\ i < args_num_samples

\* an iteration of evaluate_synthetic after which the loop goes on
SyntheticIteration(succeeded, counted, responded) ==
    /\ i' = i + 1
    /\ successful' = (IF succeeded THEN successful + 1 ELSE successful)
    /\ total' = (IF counted THEN total + 1 ELSE total)
    /\ IF responded
       THEN \E latency \in SampleLatencies : latencies' = Append(latencies, latency)
       ELSE UNCHANGED latencies

\* generate_synthetic_image or requests.post raised: "except", total += 1
SyntheticRequestRaises ==
    /\ InSyntheticLoop
    /\ SyntheticIteration(FALSE, TRUE, FALSE)
    /\ UNCHANGED <<script, builderVars, pc, raised, failure, resolveVars, correct, top5_correct,
                   class_correct, class_total, all_results, localVars, ghostVars, finalVars,
                   mainVars, sample_log, response_outputs, args_num_samples, val_dir,
                   input_file, output_file, fixed>>

\* a status other than 200: the else branch, then total += 1
SyntheticNon200 ==
    /\ InSyntheticLoop
    /\ SyntheticIteration(FALSE, TRUE, TRUE)
    /\ UNCHANGED <<script, builderVars, pc, raised, failure, resolveVars, correct, top5_correct,
                   class_correct, class_total, all_results, localVars, ghostVars, finalVars,
                   mainVars, sample_log, response_outputs, args_num_samples, val_dir,
                   input_file, output_file, fixed>>

\* status 200, then response.json(), reshape or output_data[0] raised:
\* successful += 1, "except", total += 1
SyntheticBadBody ==
    /\ InSyntheticLoop
    /\ SyntheticIteration(TRUE, TRUE, TRUE)
    /\ UNCHANGED <<script, builderVars, pc, raised, failure, resolveVars, correct, top5_correct,
                   class_correct, class_total, all_results, localVars, ghostVars, finalVars,
                   mainVars, sample_log, response_outputs, args_num_samples, val_dir,
                   input_file, output_file, fixed>>

\* status 200 and no output with a recognised name: successful += 1, "continue"
SyntheticNoOutput ==
    /\ InSyntheticLoop
    /\ \E outputs \in SampleResponseOutputs : ~SelectOutput(outputs).found
    /\ SyntheticIteration(TRUE, FALSE, TRUE)
    /\ UNCHANGED <<script, builderVars, pc, raised, failure, resolveVars, correct, top5_correct,
                   class_correct, class_total, all_results, localVars, ghostVars, finalVars,
                   mainVars, sample_log, response_outputs, args_num_samples, val_dir,
                   input_file, output_file, fixed>>

\* status 200 and a recognised output: the result is stored, total += 1
SyntheticStored ==
    /\ InSyntheticLoop
    /\ \E outputs \in SampleResponseOutputs :
          LET sel == SelectOutput(outputs)
          IN  /\ sel.found
              /\ Len(sel.data) > 0
              /\ \E ranking \in Top5Indices(sel.data) :
                    /\ output_data' = sel.data
                    /\ top5_indices' = ranking
                    /\ all_results' = Append(all_results,
                                             [sample_id |-> i, top5_indices |-> ranking])
    /\ SyntheticIteration(TRUE, TRUE, TRUE)
    /\ UNCHANGED <<script, builderVars, pc, raised, failure, resolveVars, correct, top5_correct,
                   class_correct, class_total, true_idx, predicted, is_correct, is_top5_correct,
                   ghostVars, finalVars, mainVars, sample_log, response_outputs,
                   args_num_samples, val_dir, input_file, output_file, fixed>>

\* the results dict of evaluate_synthetic
SyntheticReport(elapsed, stats) ==
    [ returned |-> TRUE,
      success_rate |-> Ratio(successful, total),
      successful_count |-> successful,
      total_count |-> total,
      is_responsive |-> (10 * Ratio(successful, total).num > 9 * Ratio(successful, total).den),
      avg_latency_ms |-> stats.avg,
      p95_latency_ms |-> stats.p95,
      p99_latency_ms |-> stats.p99,
      samples_per_second |-> (IF elapsed > 0 THEN Ratio(total, elapsed) ELSE Ratio(0, 0)),
      detailed_results |-> DetailedResults(script, all_results) ]

\* from "Calculate success rate" to "return results"
SyntheticFinalize ==
    /\ script = Synthetic
    /\ pc = "loop"
    /\ i = args_num_samples
    /\ latency_stats' = LatencyStats(latencies)
    /\ \E elapsed \in ElapsedChoices :
          /\ elapsed_time' = elapsed
          /\ IF SummaryRaises(elapsed)
             THEN /\ pc' = "raised"
                  /\ raised' = "ZeroDivisionError"
                  /\ UNCHANGED results
             ELSE /\ pc' = "returned"
                  /\ results' = SyntheticReport(elapsed, latency_stats')
                  /\ UNCHANGED raised
    /\ UNCHANGED <<script, otherVars, builderVars, failure, resolveVars, i, counterVars,
                   localVars, ghostVars, saved, exit_status>>

SyntheticNext ==
    \/ SyntheticRequestRaises
    \/ SyntheticNon200
    \/ SyntheticBadBody
    \/ SyntheticNoOutput
    \/ SyntheticStored
    \/ SyntheticFinalize
    \/ MainSave
    \/ MainCrash

SpecSynthetic == SyntheticInit /\ [][SyntheticNext]_vars

\* ---------------- prepare_validation_data and the scan of its result
\* os.path.join(val_dir, 'images')
ImagesFolder == <<Letter.i, Letter.m, Letter.a, Letter.g, Letter.e, Letter.s>>

RECURSIVE Ascending(_)
\* the numbers of S in ascending order
Ascending(S) ==
    IF S = {} THEN <<>>
    ELSE LET m == CHOOSE x \in S : \A y \in S : x <= y
         IN  <<m>> \o Ascending(S \ {m})

\* the val directory as downloaded: val_annotations.txt and images/, which
\* holds some of the images the annotations name
PreparedInit ==
    /\ script = Accuracy
    /\ pc = "prepare_validation_data"
    /\ \E ann \in AnnotationFiles :
          /\ dataset = [NoDataset EXCEPT !.annotations = [exists |-> TRUE, lines |-> ann]]
          /\ \E present \in SUBSET (1..Len(ann)) :
                val_dir \in {EmptyDict, [folder \in {ImagesFolder} |-> Ascending(present)]}
    /\ raised = "none"
    /\ failure = "none"
    /\ tiny_imagenet_to_imagenet = EmptyDict
    /\ val_annotations = <<>>
    /\ class_to_idx = EmptyDict
    /\ scan = 0
    /\ val_images = <<>>
    /\ i = 0
    /\ correct = 0
    /\ total = 0
    /\ top5_correct = 0
    /\ class_correct = EmptyDict
    /\ class_total = EmptyDict
    /\ latencies = <<>>
    /\ all_results = <<>>
    /\ true_idx = 0
    /\ predicted = 0
    /\ output_data = <<>>
    /\ top5_indices = <<>>
    /\ is_correct = FALSE
    /\ is_top5_correct = FALSE
    /\ last = "none"
    /\ sent = 0
    /\ only_non200 = TRUE
    /\ latency_stats = LatencyStats(<<>>)
    /\ elapsed_time = 0
    /\ results = NoResults
    /\ saved = FALSE
    /\ exit_status = 0
    /\ BuilderIdle
    /\ sample_log = <<>>
    /\ response_outputs = <<>>
    /\ args_num_samples = 0
    /\ successful = 0
    /\ input_file = <<>>
    /\ output_file = NotWritten
    /\ fixed = "none"

\* the images of the val directory that carry class index idx
ImagesOfClass(idx) ==
    Ascending({img \in Range(val_dir[ImagesFolder]) :
                  class_to_idx'[dataset.annotations.lines[img]] = idx})

\* prepare_validation_data: class_map.txt is written and every image found
\* is copied into the directory named after the index of its class
PrepareValidationData ==
    /\ pc = "prepare_validation_data"
    /\ IF ImagesFolder \notin DOMAIN val_dir
       THEN /\ pc' = "not_prepared"         \* val/images not found: return False
            /\ UNCHANGED <<val_annotations, class_to_idx, val_dir>>
       ELSE /\ val_annotations' =
                  [k \in 1..Len(dataset.annotations.lines) |->
                      [img |-> k, class_id |-> dataset.annotations.lines[k]]]
            /\ class_to_idx' = EnumerateDict(Sorted(Range(dataset.annotations.lines)))
            /\ val_dir' =
                  [folder \in {ImagesFolder} \cup
                              {DecStr(class_to_idx'[dataset.annotations.lines[img]]) :
                                  img \in Range(val_dir[ImagesFolder])} |->
                      IF folder = ImagesFolder THEN val_dir[ImagesFolder]
                      ELSE ImagesOfClass(DigitsValue(folder))]
            /\ pc' = "scan_prepared"
    /\ UNCHANGED <<script, builderVars, raised, failure, dataset, tiny_imagenet_to_imagenet,
                   scan, val_images, i, counterVars, localVars, ghostVars, finalVars, mainVars,
                   sample_log, response_outputs, args_num_samples, successful, input_file,
                   output_file, fixed>>

RECURSIVE ListFolders(_, _)
\* the samples of the class folders, folder by folder in the order given
ListFolders(dir, subdirs) ==
    IF Len(subdirs) = 0 THEN <<>>
    ELSE [k \in 1..Len(dir[Head(subdirs)]) |->
             [path |-> <<Head(subdirs), dir[Head(subdirs)][k]>>,
              class_id |-> Head(subdirs), class_idx |-> 0]]
         \o ListFolders(dir, Tail(subdirs))

\* the dataset scan of evaluate_accuracy over the prepared directory: every
\* subdirectory is a class folder, and os.listdir gives the folders, and the
\* files of each, in an order of the file system's choosing
ScanPreparedDataset ==
    /\ pc = "scan_prepared"
    /\ \E subdirs \in Orders(DOMAIN val_dir) :
          \E listing \in [DOMAIN val_dir -> UNION {Orders(Range(val_dir[f])) : f \in DOMAIN val_dir}] :
             /\ \A f \in DOMAIN val_dir : listing[f] \in Orders(Range(val_dir[f]))
             /\ val_images' = ListFolders(listing, subdirs)
    /\ pc' = "loop"
    /\ UNCHANGED <<script, otherVars, builderVars, raised, failure, dataset,
                   tiny_imagenet_to_imagenet, val_annotations, class_to_idx, scan, i,
                   counterVars, localVars, ghostVars, finalVars, mainVars>>

SpecPrepared == PreparedInit /\ [][PrepareValidationData \/ ScanPreparedDataset]_vars

\* ------------------------------------------------------------ fix_json
\* '"detailed_results":', the text content.find looks for
DetailedResultsKey ==
    <<Punct.quote, Letter.d, Letter.e, Letter.t, Letter.a, Letter.i, Letter.l, Letter.e,
      Letter.d, Punct.underscore, Letter.r, Letter.e, Letter.s, Letter.u, Letter.l,
      Letter.t, Letter.s, Punct.quote, Punct.colon>>

\* '"detailed_results": []}', the text that closes the simplified content
EmptyDetailTail ==
    DetailedResultsKey \o <<Punct.space, Punct.lbracket, Punct.rbracket, Punct.rbrace>>

\* str.find: the 0-based index of the first occurrence of sub, -1 without one
Find(content, sub) ==
    LET hits == {k \in 0..(Len(content) - Len(sub)) :
                    SubSeq(content, k + 1, k + Len(sub)) = sub}
    IN  IF hits = {} THEN -1 ELSE CHOOSE k \in hits : \A h \in hits : k <= h

\* json.JSONDecodeError
Failed == [ok |-> FALSE, next |-> 0, value |-> <<>>]

\* a value decoded, and the position after it
Parsed(next, value) == [ok |-> TRUE, next |-> next, value |-> value]

RECURSIVE SkipWhitespace(_, _)
\* the first position from p on that holds no white space
SkipWhitespace(s, p) ==
    IF p > Len(s) THEN p
    ELSE IF s[p] = Punct.space THEN SkipWhitespace(s, p + 1) ELSE p

RECURSIVE ScanString(_, _, _)
\* the characters of a string up to its closing quote; a backslash escapes
\* the quote or the backslash after it
ScanString(s, p, text) ==
    IF p > Len(s) THEN Failed
    ELSE IF s[p] = Punct.quote THEN Parsed(p + 1, text)
    ELSE IF s[p] = Punct.backslash
         THEN IF p + 1 > Len(s) THEN Failed
              ELSE IF s[p + 1] \in {Punct.quote, Punct.backslash}
                   THEN ScanString(s, p + 2, Append(text, s[p + 1]))
                   ELSE Failed
    ELSE ScanString(s, p + 1, Append(text, s[p]))

RECURSIVE ScanNumber(_, _)
\* the position after the digits that start at p
ScanNumber(s, p) ==
    IF p > Len(s) THEN p
    ELSE IF s[p] \in 0..9 THEN ScanNumber(s, p + 1) ELSE p

RECURSIVE ParseValue(_, _)
RECURSIVE ParseItems(_, _, _)
RECURSIVE ParseMembers(_, _, _)
\* the JSON value that starts at or after position p
ParseValue(s, p) ==
    LET q == SkipWhitespace(s, p)
    IN  IF q > Len(s) THEN Failed
        ELSE IF s[q] = Punct.quote
             THEN LET str == ScanString(s, q + 1, <<>>)
                  IN  IF str.ok THEN Parsed(str.next, [kind |-> "string", content |-> str.value])
                      ELSE Failed
        ELSE IF s[q] \in 0..9
             THEN LET e == ScanNumber(s, q)
                  IN  IF s[q] = 0 /\ e > q + 1 THEN Failed        \* no leading zero
                      ELSE Parsed(e, [kind |-> "number", content |-> SubSeq(s, q, e - 1)])
        ELSE IF s[q] = Punct.lbracket
             THEN LET r == SkipWhitespace(s, q + 1)
                  IN  IF r > Len(s) THEN Failed
                      ELSE IF s[r] = Punct.rbracket
                           THEN Parsed(r + 1, [kind |-> "array", content |-> <<>>])
                           ELSE ParseItems(s, r, <<>>)
        ELSE IF s[q] = Punct.lbrace
             THEN LET r == SkipWhitespace(s, q + 1)
                  IN  IF r > Len(s) THEN Failed
                      ELSE IF s[r] = Punct.rbrace
                           THEN Parsed(r + 1, [kind |-> "object", content |-> <<>>])
                           ELSE ParseMembers(s, r, <<>>)
        ELSE Failed

\* the items of an array after its opening bracket
ParseItems(s, p, items) ==
    LET item == ParseValue(s, p)
    IN  IF ~item.ok THEN Failed
        ELSE LET q == SkipWhitespace(s, item.next)
             IN  IF q > Len(s) THEN Failed
                 ELSE IF s[q] = Punct.comma
                      THEN ParseItems(s, q + 1, Append(items, item.value))
                 ELSE IF s[q] = Punct.rbracket
                      THEN Parsed(q + 1, [kind |-> "array",
                                          content |-> Append(items, item.value)])
                 ELSE Failed

\* the members of an object after its opening brace
ParseMembers(s, p, members) ==
    LET q == SkipWhitespace(s, p)
    IN  IF q > Len(s) THEN Failed
        ELSE IF s[q] # Punct.quote THEN Failed
        ELSE LET key == ScanString(s, q + 1, <<>>)
             IN  IF ~key.ok THEN Failed
                 ELSE LET c == SkipWhitespace(s, key.next)
                      IN  IF c > Len(s) THEN Failed
                          ELSE IF s[c] # Punct.colon THEN Failed
                          ELSE LET member == ParseValue(s, c + 1)
                               IN  IF ~member.ok THEN Failed
                                   ELSE LET e == SkipWhitespace(s, member.next)
                                            all == Append(members, [key |-> key.value,
                                                                    value |-> member.value])
                                        IN  IF e > Len(s) THEN Failed
                                            ELSE IF s[e] = Punct.comma
                                                 THEN ParseMembers(s, e + 1, all)
                                            ELSE IF s[e] = Punct.rbrace
                                                 THEN Parsed(e + 1, [kind |-> "object",
                                                                     content |-> all])
                                            ELSE Failed

\* json.loads: one value and nothing but white space after it
JsonLoads(s) ==
    LET r == ParseValue(s, 1)
    IN  IF ~r.ok THEN Failed
        ELSE IF SkipWhitespace(s, r.next) <= Len(s) THEN Failed     \* extra data
        ELSE r

\* pieces of result files, whole and cut short
Fragments ==
    { <<Punct.lbrace>>,                                                   \* {
      <<Punct.lbracket>>,                                                 \* [
      <<Punct.quote, Letter.a, Punct.quote, Punct.colon, Punct.space, 1,
        Punct.comma, Punct.space>>,                                       \* "a": 1,
      <<Punct.quote, Letter.a, Punct.quote, Punct.colon, Punct.space,
        Punct.lbrace>>,                                                   \* "a": {
      <<Punct.quote, Letter.a, Punct.backslash>>,                         \* "a\
      DetailedResultsKey,                                                 \* "detailed_results":
      <<Punct.space, Punct.lbracket, 1, Punct.rbracket, Punct.rbrace>>,   \*  [1]}
      <<Punct.space, Punct.lbracket, 1, Punct.comma>> }                   \*  [1,

RECURSIVE Documents(_)
\* the texts made of at most n fragments
Documents(n) ==
    IF n = 0 THEN {<<>>}
    ELSE LET shorter == Documents(n - 1)
         IN  shorter \cup {d \o f : d \in shorter, f \in Fragments}

\* fix_json is called with an input path and an output path; the output file
\* may exist already
FixJsonInit ==
    /\ script = "fix_json"
    /\ pc = "fix_json"
    /\ input_file \in {[exists |-> FALSE, content |-> <<>>]} \cup
                     {[exists |-> TRUE, content |-> d] : d \in Documents(MaxFragments)}
    /\ output_file \in {NotWritten, [written |-> TRUE, content |-> <<Punct.lbrace, Punct.rbrace>>]}
    /\ raised = "none"
    /\ failure = "none"
    /\ dataset = NoDataset
    /\ tiny_imagenet_to_imagenet = EmptyDict
    /\ val_annotations = <<>>
    /\ class_to_idx = EmptyDict
    /\ scan = 0
    /\ val_images = <<>>
    /\ i = 0
    /\ correct = 0
    /\ total = 0
    /\ top5_correct = 0
    /\ class_correct = EmptyDict
    /\ class_total = EmptyDict
    /\ latencies = <<>>
    /\ all_results = <<>>
    /\ true_idx = 0
    /\ predicted = 0
    /\ output_data = <<>>
    /\ top5_indices = <<>>
    /\ is_correct = FALSE
    /\ is_top5_correct = FALSE
    /\ last = "none"
    /\ sent = 0
    /\ only_non200 = TRUE
    /\ latency_stats = LatencyStats(<<>>)
    /\ elapsed_time = 0
    /\ results = NoResults
    /\ saved = FALSE
    /\ exit_status = 0
    /\ BuilderIdle
    /\ sample_log = <<>>
    /\ response_outputs = <<>>
    /\ args_num_samples = 0
    /\ successful = 0
    /\ val_dir = EmptyDict
    /\ fixed = "none"

\* content[:detailed_results_start] + '"detailed_results": []}'
SimplifiedContent(content) ==
    SubSeq(content, 1, Find(content, DetailedResultsKey)) \o EmptyDetailTail

\* fix_json(input, output): what it returns and the output file it leaves
RunFixJson(input, output, writable) ==
    IF ~input.exists THEN [returned |-> "False", output |-> output]
    ELSE IF Find(input.content, DetailedResultsKey) = -1
         THEN [returned |-> "False", output |-> output]
    ELSE IF ~JsonLoads(SimplifiedContent(input.content)).ok
         THEN [returned |-> "False", output |-> output]
    ELSE IF ~writable THEN [returned |-> "False", output |-> output]
    ELSE [returned |-> "True",
          output |-> [written |-> TRUE, content |-> SimplifiedContent(input.content)]]

\* fix_json on the input file
FixJson ==
    /\ pc = "fix_json"
    /\ \E writable \in BOOLEAN :
          LET call == RunFixJson(input_file, output_file, writable)
          IN  /\ fixed' = call.returned
              /\ output_file' = call.output
    /\ pc' = "fixed"
    /\ UNCHANGED <<script, builderVars, raised, failure, dataset, tiny_imagenet_to_imagenet,
                   val_annotations, class_to_idx, scan, val_images, i, counterVars,
                   localVars, ghostVars, finalVars, mainVars, sample_log, response_outputs,
                   args_num_samples, successful, val_dir, input_file>>

\* fix_json on the file it wrote, with the same output path
FixOwnOutput ==
    /\ pc = "fixed"
    /\ fixed = "True"
    /\ input_file' = [exists |-> TRUE, content |-> output_file.content]
    /\ LET call == RunFixJson(input_file', output_file, TRUE)
       IN  /\ fixed' = call.returned
           /\ output_file' = call.output
    /\ pc' = "fixed_again"
    /\ UNCHANGED <<script, builderVars, raised, failure, dataset, tiny_imagenet_to_imagenet,
                   val_annotations, class_to_idx, scan, val_images, i, counterVars,
                   localVars, ghostVars, finalVars, mainVars, sample_log, response_outputs,
                   args_num_samples, successful, val_dir>>

SpecFixJson == FixJsonInit /\ [][FixJson \/ FixOwnOutput]_vars

\* ------------------------------------------------------- properties
RECURSIVE SumOver(_, _)
SumOver(counts, S) ==
    IF S = {} THEN 0
    ELSE LET c == CHOOSE x \in S : TRUE
         IN  counts[c] + SumOver(counts, S \ {c})
\* sum(counts.values())
Sum(counts) == SumOver(counts, DOMAIN counts)

\* evaluate_model has been left after its loop was entered
LeftAfterLoop == pc \in {"returned", "raised"} /\ raised # "KeyError"

\* C1: in evaluate_with_mapping and evaluate_accuracy, after any prefix of the
\* sample list, total is the sum of class_total and the number of detail
\* records, correct is the sum of class_correct, class_correct[c] <=
\* class_total[c] for every class, correct <= total <= samples taken, and the
\* detail records name distinct samples in list order (none counted twice).
C1_AccumulatorAccounting ==
    HasClassCounters =>
        /\ total = Sum(class_total)
        /\ correct = Sum(class_correct)
        /\ DOMAIN class_correct = DOMAIN class_total
        /\ \A c \in DOMAIN class_total : class_correct[c] <= class_total[c]
        /\ correct <= total
        /\ total <= i
        /\ Len(all_results) = total
        /\ \A a \in 1..Len(all_results) : \A b \in 1..Len(all_results) :
              a < b => all_results[a].image < all_results[b].image

\* a scored, correct sample followed by an excluded one
C1_Witness ==
    /\ script = WithMapping
    /\ pc = "loop"
    /\ i = 2 /\ total = 1 /\ correct = 1
    /\ last = "transport_exception"

\* C2: whenever evaluate_with_mapping or evaluate_top5 leaves evaluate_model
\* after its loop was entered, the loop has taken every listed sample once and
\* a report is returned, whatever the per-sample outcomes were.
C2_BatchReturnsReport ==
    (script \in {WithMapping, Top5} /\ LeftAfterLoop) =>
        /\ i = Len(val_images)
        /\ results.returned

\* C3: in evaluate_with_mapping an iteration on a sample whose local index has
\* no entry in the mapping changes neither total nor correct nor any per-class
\* total.
C3_UnmappedSampleNotCounted ==
    [][ (script = WithMapping /\ InLoop /\ ~HasEntry) =>
            /\ total' = total
            /\ correct' = correct
            /\ \A c \in DOMAIN class_total : class_total'[c] = class_total[c] ]_vars

\* C4 (as stated): in evaluate_with_mapping and evaluate_top5 a scored sample
\* is counted top-1 correct iff the top-ranked predicted index equals the
\* resolved ground-truth index, for every pair of indices.
C4_Top1IsIndexEquality ==
    (script \in {WithMapping, Top5} /\ last = "scored") =>
        (is_correct <=> predicted = true_idx)

\* C4 (amended): evaluate_with_mapping counts a scored sample top-1 correct iff
\* the predicted index equals the mapped target index; evaluate_top5 counts it
\* top-1 correct iff the two indices have the same remainder modulo 1000.
C4_Top1EqualityOrSameLastDigits ==
    last = "scored" =>
        /\ script = WithMapping => (is_correct <=> predicted = true_idx)
        /\ script = Top5 =>
              (is_correct <=> predicted % Modulus = true_idx % Modulus)

\* evaluate_top5 counts a class index of 1000 or more correct against another index
C4_Witness ==
    /\ script = Top5
    /\ last = "scored"
    /\ true_idx >= Modulus
    /\ predicted # true_idx
    /\ is_correct

\* C5: in evaluate_top5 every scored sample that is top-1 correct is top-5
\* correct, and top1_correct <= top5_correct <= total after any sequence of
\* samples, also for output rows of fewer than 5 entries.
C5_Top5Monotonic ==
    script = Top5 =>
        /\ last = "scored" => (is_correct => is_top5_correct)
        /\ correct <= top5_correct
        /\ top5_correct <= total

\* two scored samples, the last one top-1 correct on a row of fewer than 5 entries
C5_Witness ==
    /\ script = Top5
    /\ last = "scored"
    /\ Len(output_data) < TopK
    /\ Len(top5_indices) = Len(output_data)
    /\ is_correct /\ is_top5_correct
    /\ correct = 1 /\ top5_correct = 2 /\ total = 2

\* C6: the ranking of evaluate_top5 orders the indices by output value
\* descending and equal values by index ascending, so its first index is the
\* lowest index of a maximal output, the index np.argmax returns.
C6_TiesAscendingIndex ==
    (script = Top5 /\ last = "scored") =>
        /\ predicted = ArgMax(output_data)
        /\ \A a \in 1..Len(top5_indices) : \A b \in 1..Len(top5_indices) :
              a < b =>
                LET va == output_data[top5_indices[a] + 1]
                    vb == output_data[top5_indices[b] + 1]
                IN  va > vb \/ (va = vb /\ top5_indices[a] < top5_indices[b])

\* C7 (as stated): when every request over the N listed samples got a status
\* other than 200, the report has total_count = N and correct count = 0.
C7_AllFailedTotalIsN ==
    (script \in {WithMapping, Top5} /\ pc = "returned" /\ only_non200) =>
        /\ results.total_count = Len(val_images)
        /\ results.correct_count = 0

\* C7 (amended): when every request over the N listed samples got a status
\* other than 200, the report has total_count = 0, correct count = 0 and no
\* detail record, and N latencies were recorded.
C7_AllFailedTotalIsZero ==
    (script \in {WithMapping, Top5} /\ pc = "returned" /\ only_non200) =>
        /\ results.total_count = 0
        /\ results.correct_count = 0
        /\ results.top5_correct_count = 0
        /\ results.detailed_results = <<>>
        /\ Len(latencies) = Len(val_images)

\* a report over two listed samples, both answered with a status other than 200
C7_Witness ==
    /\ script = Top5
    /\ pc = "returned"
    /\ only_non200
    /\ Len(val_images) = 2
    /\ last = "non_200"

\* the step is an iteration in which preprocess_image returned None
PreprocessFailed == i' = i + 1 /\ last' = "preprocess_failed"

\* C8 (as stated): an iteration in which preprocess_image returns None sends
\* no inference request and leaves total, correct, the per-class counters,
\* the latency list and the detail list exactly as they were.
C8_PreprocessFailureChangesNothing ==
    [][ PreprocessFailed =>
            /\ sent' = 0
            /\ UNCHANGED <<total, correct, class_total, class_correct,
                           latencies, all_results>> ]_vars

\* C8 (amended): such an iteration sends no request and leaves total, correct,
\* the latency list, the detail list and every per-class count already kept
\* unchanged; in the evaluators with per-class counters the sample's class
\* gains a total and a correct count of 0 when it had none.
C8_PreprocessFailureKeepsCounts ==
    [][ PreprocessFailed =>
            /\ sent' = 0
            /\ UNCHANGED <<total, correct, top5_correct, latencies, all_results>>
            /\ DOMAIN class_total' = DOMAIN class_correct'
            /\ DOMAIN class_total' =
                  DOMAIN class_total \cup
                      (IF HasClassCounters THEN {Sample.class_id} ELSE {})
            /\ \A c \in DOMAIN class_total' :
                  IF c \in DOMAIN class_total
                  THEN class_total'[c] = class_total[c] /\ class_correct'[c] = class_correct[c]
                  ELSE class_total'[c] = 0 /\ class_correct'[c] = 0 ]_vars

\* a scored sample of one class, then a preprocessing failure of another class
C8_Witness ==
    /\ script = WithMapping
    /\ last = "preprocess_failed"
    /\ i = 2 /\ total = 1
    /\ Cardinality(DOMAIN class_total) = 2
    /\ Len(latencies) = 1

\* C9: evaluate_model of evaluate_with_mapping and evaluate_top5 is never left
\* by an exception while it builds the sample list: a listed image whose label
\* wnids.txt does not name is passed over and the other samples are scored.
C9_UnlistedLabelStillCompletes == ~(pc = "raised" /\ raised = "KeyError")

\* the reported value is defined and is 0
IsZero(r) == r.num = 0 /\ r.den > 0

\* C10: a report with total_count = 0 has overall accuracy 0 (top-1 and
\* top-5), per-class accuracy 0 for every class it lists, and throughput 0.
C10_ZeroTotalReportsZero ==
    (results.returned /\ results.total_count = 0) =>
        /\ IsZero(results.overall_accuracy)
        /\ IsZero(results.top5_accuracy)
        /\ \A c \in DOMAIN results.per_class_accuracy :
              IsZero(results.per_class_accuracy[c])
        /\ IsZero(results.images_per_second)

\* a report over two listed samples, none scored, that lists a class
C10_Witness ==
    /\ script = WithMapping
    /\ results.returned
    /\ results.total_count = 0
    /\ Len(val_images) = 2
    /\ DOMAIN results.per_class_accuracy # {}

\* C11: whenever evaluate_model is left after its loop with a measured
\* elapsed time of 0, it is left by returning the report, whose throughput is
\* 0, and no exception was raised.
C11_ZeroElapsedReturnsReport ==
    (LeftAfterLoop /\ elapsed_time = 0) =>
        /\ raised = "none"
        /\ results.returned
        /\ IsZero(results.images_per_second)

\* the process ended after evaluate_model had run its loop
ExitedAfterLoop == pc = "exited" /\ failure = "none" /\ raised # "KeyError"

\* C12: a run of evaluate_with_mapping that scored no sample (none listed, or
\* all excluded) ends with a report whose accuracy is 0 and whose latency
\* statistics are 0 when no latency was collected, and with exit status 0.
C12_DegenerateRunReports ==
    (script = WithMapping /\ ExitedAfterLoop /\ total = 0) =>
        /\ results.returned
        /\ IsZero(results.overall_accuracy)
        /\ Len(latencies) = 0 =>
              /\ IsZero(results.avg_latency_ms)
              /\ IsZero(results.p95_latency_ms)
              /\ IsZero(results.p99_latency_ms)
        /\ exit_status = 0

\* r1 <= r2 of two fractions with positive denominators
LessEq(r1, r2) == r1.num * r2.den <= r2.num * r1.den

\* C13: for a non-empty latency sample p50 <= p95 <= p99, and p95 and p99 lie
\* between the minimum and the maximum of the sample.
C13_PercentilesOrdered ==
    (pc = "latency_done" /\ Len(latencies) > 0) =>
        /\ LessEq(Percentile(latencies, 50), latency_stats.p95)
        /\ LessEq(latency_stats.p95, latency_stats.p99)
        /\ \A k \in 1..Len(latencies) :
              (\A m \in 1..Len(latencies) : latencies[k] <= latencies[m]) =>
                  LessEq([num |-> latencies[k], den |-> 1], latency_stats.p95)
        /\ \A k \in 1..Len(latencies) :
              (\A m \in 1..Len(latencies) : latencies[m] <= latencies[k]) =>
                  LessEq(latency_stats.p99, [num |-> latencies[k], den |-> 1])

\* an unordered sample whose p95 lies strictly between p50 and p99
C13_Witness ==
    /\ pc = "latency_done"
    /\ latencies = <<5, 1, 2>>
    /\ ~LessEq(latency_stats.p95, Percentile(latencies, 50))
    /\ ~LessEq(latency_stats.p99, latency_stats.p95)

\* C14: in evaluate_with_mapping an iteration on a sample whose local index
\* has no mapping entry resolves the ground truth to the sentinel, which
\* differs from every predicted index, and never counts the sample correct.
C14_UnmappedNeverCorrect ==
    [][ (script = WithMapping /\ InLoop /\ ~HasEntry) =>
            /\ true_idx' = Unmapped
            /\ correct' = correct
            /\ last' = "scored" => (predicted' # true_idx' /\ ~is_correct') ]_vars

\* an unmapped sample scored with predicted index 0
C14_Witness ==
    /\ script = WithMapping
    /\ last = "scored"
    /\ true_idx = Unmapped
    /\ predicted = 0
    /\ ~is_correct
    /\ total = 1 /\ correct = 0

\* C15: when wnids.txt is present, load_val_annotations gives every label the
\* file lists the index of its position in the file, whatever the order of the
\* annotation file, and every listed sample carries the label of its
\* annotation line and the file position of that label as class_idx.
C15_FileOrderIndices ==
    (script \in {WithMapping, Top5} /\ dataset.wnids.exists /\ dataset.annotations.exists) =>
        /\ DOMAIN class_to_idx = Range(dataset.wnids.lines)
        /\ \A l \in DOMAIN class_to_idx : dataset.wnids.lines[class_to_idx[l] + 1] = l
        /\ \A k \in 1..Len(val_images) :
              /\ val_images[k].class_id = dataset.annotations.lines[val_images[k].path]
              /\ dataset.wnids.lines[val_images[k].class_idx + 1] = val_images[k].class_id

\* annotations img 1 -> n1, img 2 -> n2 with a label file listing n2, n1
C15_Witness ==
    /\ script = WithMapping
    /\ pc = "prepare"
    /\ dataset.annotations.lines = <<Label(1), Label(2)>>
    /\ dataset.wnids.exists
    /\ dataset.wnids.lines = <<Label(2), Label(1)>>
    /\ class_to_idx[Label(2)] = 0 /\ class_to_idx[Label(1)] = 1
    /\ Len(val_images) = 2
    /\ val_images[1].class_idx = 1 /\ val_images[2].class_idx = 0


\* the mapping builder holds the list get_tiny_imagenet_classes returned
Resolved == script = Builder /\ pc \in {"create_class_mapping", "save_mapping"}

\* C16: when wnids.txt is absent, every resolver gives a label the index of
\* its position in the lexicographically sorted set of labels: load_val_annotations
\* in class_to_idx, and the mapping builder in the list whose positions
\* create_class_mapping turns into the keys of the mapping.
C16_NoLabelFileSortedIndices ==
    /\ (script \in {WithMapping, Top5} /\ dataset.annotations.exists
            /\ ~dataset.wnids.exists) =>
          class_to_idx = EnumerateDict(Sorted(Range(dataset.annotations.lines)))
    /\ (Resolved /\ ~dataset.wnids.exists) =>
          tiny_imagenet_wnids = Sorted(Range(tiny_imagenet_wnids))

\* C17: label resolution gives the same list when the script is run a second
\* time, in a second process, on the unchanged dataset directory, whichever
\* of the three sources the labels come from.
C17_ResolutionRepeatable ==
    (Resolved /\ run = 2 /\ first_wnids.resolved) =>
        tiny_imagenet_wnids = first_wnids.wnids


\* the labels of the first source present, taken in the order wnids.txt,
\* train/ subdirectories, val_annotations.txt
FirstAvailable(d) ==
    IF d.wnids.exists THEN Range(d.wnids.lines)
    ELSE IF d.train.exists THEN Range(d.train.dirs)
    ELSE Range(d.annotations.lines)

NoSource(d) == ~d.wnids.exists /\ ~d.train.exists /\ ~d.annotations.exists

\* the mapping builder takes its labels from the first source present and
\* gives up for want of labels only when there is none
BuilderFirstAvailable ==
    /\ Resolved =>
          /\ ~NoSource(dataset)
          /\ Range(tiny_imagenet_wnids) = FirstAvailable(dataset)
    /\ (script = Builder /\ failure = "label_space") => NoSource(dataset)
    /\ (script = Builder /\ pc = "exited" /\ NoSource(dataset)) =>
          failure = "label_space"

\* C18 (as stated): every resolver takes the label universe from the first
\* source present in the order label file, class subdirectories, annotation
\* labels, and fails only when none of the three is present.
C18_FirstAvailableSource ==
    /\ BuilderFirstAvailable
    /\ (script \in {WithMapping, Top5} /\ dataset.annotations.exists) =>
          DOMAIN class_to_idx = FirstAvailable(dataset)
    /\ (script \in {WithMapping, Top5} /\ failure = "label_space") =>
          NoSource(dataset)

\* C18 (amended): get_tiny_imagenet_classes takes the labels from the first
\* source present in the order label file, class subdirectories, annotation
\* labels, and finds no labels only when none is present.  load_val_annotations
\* never looks at the class subdirectories: it fails exactly when the
\* annotation file is absent, whatever else is present, and otherwise takes
\* the labels from the label file if present, else from the annotations.
C18_SourcePriorityPerResolver ==
    /\ BuilderFirstAvailable
    /\ (script \in {WithMapping, Top5} /\ dataset.annotations.exists) =>
          DOMAIN class_to_idx =
              (IF dataset.wnids.exists THEN Range(dataset.wnids.lines)
               ELSE Range(dataset.annotations.lines))
    /\ (script \in {WithMapping, Top5} /\ failure = "label_space") =>
          ~dataset.annotations.exists
    /\ (script \in {WithMapping, Top5} /\ pc \in {"returned_none", "exited"}
            /\ dataset # NoDataset /\ ~dataset.annotations.exists) =>
          failure = "label_space"

\* the builder prefers the class subdirectories to the annotation labels
C18_Witness ==
    /\ Resolved
    /\ ~dataset.wnids.exists
    /\ dataset.train.dirs = <<Label(2), Label(1)>>
    /\ dataset.annotations.lines = <<Label(1)>>
    /\ tiny_imagenet_wnids = <<Label(2), Label(1)>>


\* C19: when load_val_annotations cannot resolve the label universe,
\* evaluate_model returns None before the sample loop has taken a sample or
\* sent a request, and main ends the process with exit status 1.
C19_LabelSpaceFailureFatal ==
    (script \in {WithMapping, Top5} /\ failure = "label_space") =>
        /\ pc \in {"returned_none", "exited"}
        /\ i = 0 /\ last = "none" /\ sent = 0
        /\ Len(latencies) = 0 /\ Len(all_results) = 0
        /\ ~results.returned
        /\ pc = "exited" => exit_status = 1

C19_Witness ==
    /\ script = Top5
    /\ pc = "exited"
    /\ failure = "label_space"
    /\ dataset.wnids.exists
    /\ ~dataset.annotations.exists
    /\ sent = 0
    /\ exit_status = 1

\* C20: when save_results cannot write the report file, the process ends
\* with a non-zero exit status.
C20_WriteFailureExitsNonZero ==
    (script \in {WithMapping, Top5, Accuracy} /\ pc = "exited"
        /\ results.returned /\ ~saved) => exit_status # 0

\* C21: in every evaluator the detailed_results list of the report is never
\* longer than a fixed cap, whatever the number of scored samples, and holds
\* the first scored samples in processing order.
C21_DetailListBounded ==
    (pc = "returned") =>
        /\ Len(results.detailed_results) <= DetailCap
        /\ results.detailed_results = Prefix(all_results, Len(results.detailed_results))

\* the moves of a sample the state machine allows: forward by one state, or
\* to Excluded from a state that is not terminal
Forward(from, to) ==
    \/ to = from
    \/ from = "Pending" /\ to \in {"Preprocessed", "Excluded"}
    \/ from = "Preprocessed" /\ to \in {"Inferred", "Excluded"}
    \/ from = "Inferred" /\ to \in {"Scored", "Excluded"}

AllTerminal == \A k \in 1..Len(sample_log) : sample_log[k].state \in {"Scored", "Excluded"}

\* C22: every listed sample moves Pending -> Preprocessed -> Inferred -> Scored
\* or to Excluded from a state that is not terminal, never backward; at most
\* one request is sent for it; the loop takes the samples once, in order, and
\* in the end every sample is Scored or Excluded and the loop is over.
C22_SampleStateMachine ==
    /\ [][ /\ Len(sample_log') = Len(sample_log)
           /\ \A k \in 1..Len(sample_log) :
                 Forward(sample_log[k].state, sample_log'[k].state)
           /\ i' \in {i, i + 1} ]_vars
    /\ [](\A k \in 1..Len(sample_log) :
             /\ sample_log[k].requests <= 1
             /\ (k <= i) <=> (sample_log[k].state \in {"Scored", "Excluded"})
             /\ (k > i + 1) => (sample_log[k].state = "Pending"))
    /\ <>[](AllTerminal /\ i = Len(val_images) /\ pc = "latency_done")

C22_Witness ==
    /\ script = WithMapping
    /\ pc = "latency_done"
    /\ Len(sample_log) = 2
    /\ sample_log[1].state = "Excluded" /\ sample_log[1].outcome = "non_200"
    /\ sample_log[1].requests = 1
    /\ sample_log[2].state = "Scored"
    /\ total = 1

\* the allow-list in the order the names are written
AllowListOrder == <<"logits", "output", "predictions">>

\* the positions of the outputs named as the allow-list entry of rank r
NamedAs(r) == {k \in 1..Len(response_outputs) : response_outputs[k].name = AllowListOrder[r]}

\* C24: the output used is the one whose name comes first in the allow-list
\* order logits, output, predictions, whatever the order of the outputs in the
\* response; names match exactly and case-sensitively, and a response without
\* a recognised name leaves the sample out.
C24_AllowListOrderWins ==
    (pc \in {"output_found", "continue"}) =>
        LET ranks == {r \in 1..Len(AllowListOrder) : NamedAs(r) # {}}
        IN  IF ranks = {} THEN pc = "continue"
            ELSE LET best == CHOOSE r \in ranks : \A q \in ranks : r <= q
                     first == CHOOSE k \in NamedAs(best) : \A m \in NamedAs(best) : k <= m
                 IN  /\ pc = "output_found"
                     /\ output_data = response_outputs[first].data

\* C25: in evaluate_synthetic, whatever the outcomes of the requests,
\* successful never exceeds total, total is the number of samples requested
\* once the loop is over, and the success rate reported lies between 0 and 1.
C25_SyntheticCounters ==
    /\ successful <= total
    /\ (pc # "loop") => total = args_num_samples
    /\ (pc \in {"returned", "exited"} /\ results.returned) =>
          /\ 0 <= results.success_rate.num
          /\ results.success_rate.num <= results.success_rate.den

RECURSIVE ResponseLatencies(_)
\* the latencies of the samples whose request returned a response, in
\* processing order
ResponseLatencies(log) ==
    IF Len(log) = 0 THEN <<>>
    ELSE (IF Head(log).responded THEN <<Head(log).latency>> ELSE <<>>)
             \o ResponseLatencies(Tail(log))

\* C26: evaluate_with_mapping and evaluate_top5 record one latency for every
\* request that returned a response, whatever its status, and none for a
\* request that raised: the latency list is the list of the responses'
\* latencies, it is at least as long as total, and the statistics reported
\* are those of that list, the responses of excluded samples included.
C26_LatencyPerResponse ==
    /\ latencies = ResponseLatencies(sample_log)
    /\ \A k \in 1..Len(sample_log) :
          /\ sample_log[k].outcome \in {"non_200", "bad_body", "no_output", "empty_output",
                                         "scored"} => sample_log[k].responded
          /\ sample_log[k].outcome \in {"mapping_value_error", "preprocess_failed",
                                         "transport_exception"} => ~sample_log[k].responded
    /\ Len(latencies) >= total
    /\ (pc = "latency_done") => latency_stats = LatencyStats(ResponseLatencies(sample_log))

C26_Witness ==
    /\ script = Top5
    /\ pc = "latency_done"
    /\ Len(sample_log) = 2
    /\ sample_log[1].outcome = "non_200" /\ sample_log[1].latency = 5
    /\ sample_log[2].outcome = "scored" /\ sample_log[2].latency = 1
    /\ total = 1
    /\ latencies = <<5, 1>>
    /\ latency_stats.p95.num > latency_stats.p95.den

\* the mapping entry of listed sample k converts to an int (or is missing)
EntryConverts(k) ==
    LET key == DecStr(val_images[k].class_idx)
    IN  key \in DOMAIN tiny_imagenet_to_imagenet =>
            IsDecimal(tiny_imagenet_to_imagenet[key])

\* the label ids of the samples the loop has taken so far
StartedClasses == {val_images[k].class_id : k \in 1..i}

\* the same without the samples whose mapping entry made int() raise
CounterClasses ==
    {val_images[k].class_id :
        k \in {j \in 1..i : script = WithMapping => EntryConverts(j)}}

ZeroTotalsReportZero ==
    (pc \in {"returned", "exited"} /\ results.returned) =>
        /\ DOMAIN results.per_class_accuracy = DOMAIN class_total
        /\ \A c \in DOMAIN class_total :
              class_total[c] = 0 => IsZero(results.per_class_accuracy[c])

\* C27 (as stated): per_class_accuracy has one entry for the label id of every
\* sample whose processing started, a class without a scored sample
\* included, which is reported with total 0 and accuracy 0.
C27_EveryStartedClassHasEntry ==
    (script \in {WithMapping, Accuracy}) =>
        /\ DOMAIN class_total = StartedClasses
        /\ DOMAIN class_correct = StartedClasses
        /\ ZeroTotalsReportZero

\* C27 (amended): the entries are those of the samples that reached the
\* counter set-up: in evaluate_with_mapping a sample whose mapping entry is
\* not a number leaves the iteration at int() before its class gets an entry.
C27_EveryCounterClassHasEntry ==
    (script \in {WithMapping, Accuracy}) =>
        /\ DOMAIN class_total = CounterClasses
        /\ DOMAIN class_correct = CounterClasses
        /\ ZeroTotalsReportZero

C27_Witness ==
    /\ script = WithMapping
    /\ pc = "returned"
    /\ DOMAIN results.per_class_accuracy = {Label(1), Label(2)}
    /\ class_total[Label(1)] = 0
    /\ IsZero(results.per_class_accuracy[Label(1)])
    /\ class_total[Label(2)] = 1

\* C28: over a val directory laid out by prepare_validation_data the scan of
\* evaluate_accuracy lists every validation image exactly once, with the
\* numeric class index of its label as class_id.
C28_PreparedScanListsOnce ==
    (pc = "loop") =>
        /\ \A img \in Range(val_dir[ImagesFolder]) :
              Cardinality({k \in 1..Len(val_images) : val_images[k].path[2] = img}) = 1
        /\ \A k \in 1..Len(val_images) :
              val_images[k].class_id =
                  DecStr(class_to_idx[dataset.annotations.lines[val_images[k].path[2]]])

\* the members of a decoded object that carry the key detailed_results
DetailMembers(object) ==
    {k \in 1..Len(object.content) :
        object.content[k].key = SubSeq(DetailedResultsKey, 2, Len(DetailedResultsKey) - 2)}

\* the text is a JSON object whose detailed_results is an empty list (of a
\* key written twice the last one counts)
HasEmptyDetail(text) ==
    LET doc == JsonLoads(text)
    IN  IF ~doc.ok THEN FALSE
        ELSE IF doc.value.kind # "object" THEN FALSE
        ELSE IF DetailMembers(doc.value) = {} THEN FALSE
        ELSE LET k == CHOOSE m \in DetailMembers(doc.value) :
                          \A o \in DetailMembers(doc.value) : o <= m
             IN  /\ doc.value.content[k].value.kind = "array"
                 /\ Len(doc.value.content[k].value.content) = 0

\* fix_json returns False and leaves the output file as it was
Refused == fixed' = "False" /\ output_file' = output_file

\* the input has no detailed_results key, or what stands before it, closed
\* with an empty detail list, is not valid JSON
NotRepairable(file) ==
    IF ~file.exists THEN TRUE
    ELSE IF Find(file.content, DetailedResultsKey) = -1 THEN TRUE
    ELSE ~JsonLoads(SimplifiedContent(file.content)).ok

\* C29: fix_json writes the output file only after the truncated content has
\* parsed: without a detailed_results key, or when the text before it closed
\* with an empty detail list is not valid JSON, it returns False and leaves
\* the output file untouched; when it returns True the output is a JSON object
\* whose detailed_results is empty and whose other fields are the text written
\* before detailed_results in the input; fix_json applied to its own output
\* gives the same content.
C29_FixJsonRepairs ==
    [][ /\ FixJson =>
            /\ NotRepairable(input_file) => Refused
            /\ fixed' = "False" => output_file' = output_file
            /\ fixed' = "True" =>
                  /\ HasEmptyDetail(output_file'.content)
                  /\ output_file'.content =
                        SubSeq(input_file.content, 1,
                               Find(input_file.content, DetailedResultsKey))
                        \o EmptyDetailTail
        /\ FixOwnOutput => (fixed' = "True" /\ output_file' = output_file) ]_vars

\* the mapping builder has built its mapping
MappingBuilt == script = Builder /\ pc \in {"save_mapping", "exited"} /\ failure = "none"

\* int(tiny_imagenet_to_imagenet.get(str(class_idx), -1)) finds an entry for
\* the class_idx of every sample: the index class_to_idx[class_id] of the
\* label of an annotation line (a label class_to_idx lacks raises KeyError
\* and no sample is made)
SamplesMapped(ann, wnids, mapping) ==
    \A k \in 1..Len(ann) :
        IF \A j \in 1..Len(wnids) : wnids[j] # ann[k] THEN TRUE
        ELSE LET key == DecStr(LastPosition(wnids, ann[k]) - 1)
             IN  IF key \in DOMAIN mapping THEN IsDecimal(mapping[key]) ELSE FALSE

\* C30: create_class_mapping builds a total mapping: its keys are the decimal
\* strings of the positions 0..n-1 of the label list, every value is the
\* decimal string of an integer in 0..999, whether or not the label is in the
\* ImageNet class index; so every label that evaluate_with_mapping resolves
\* from the same wnids.txt has an entry.
C30_TotalMapping ==
    MappingBuilt =>
        /\ DOMAIN class_mapping = {DecStr(k - 1) : k \in 1..Len(tiny_imagenet_wnids)}
        /\ \A key \in DOMAIN class_mapping :
              /\ IsDecimal(class_mapping[key])
              /\ DigitsValue(class_mapping[key]) \in 0..(HashRange - 1)
        /\ LabelSource(dataset) = "wnids" =>
              SamplesMapped(dataset.annotations.lines, dataset.wnids.lines, class_mapping)

\* a mapping built from wnids.txt for labels the class index does not hold
C30_Witness ==
    /\ MappingBuilt
    /\ dataset.wnids.exists
    /\ imagenet_class_index = EmptyDict
    /\ Len(tiny_imagenet_wnids) = Modulus + NumLabels
    /\ Len(dataset.annotations.lines) > 0
    /\ DecStr(Modulus) \in DOMAIN class_mapping

====
